---- MODULE Spec2Model ----
\* A model of the Aimer_WT voice-mod manager: the installation manifest
\* (manifest_manager.py), the config.blk toggle, install and restore
\* (core_logic.py), the archive extractor (library_manager.py) and the busy
\* flag of the API surface (main.py).
\*
\* The module holds one state machine per subsystem.  Each specification
\* starts its own subsystem in the state after construction and keeps the
\* variables of the other subsystems at rest.
EXTENDS Integers, Sequences, FiniteSets, TLC

VARIABLES
    \* ---- ManifestManager (manifest_manager.py)
    manifest,       \* self.manifest: the in-memory ledger
    mfile,          \* <game_root>/sound/mod/.manifest.json on disk
    clock,          \* datetime.now(), as a logical clock
    lastRec,        \* history: per file, the package of the latest record_installation listing it
    removedSince,   \* history: remove_mod_record ran since the last clear_manifest / load
    conflicts,      \* the value returned by the most recent check_conflicts call
    \* ---- AppApi (main.py): the busy flag and the API threads
    is_busy,        \* self._is_busy
    lockHolder,     \* the thread inside "with self._lock", 0 when the lock is free
    thr,            \* per API thread: the entry point it runs and where it is in it
    running,        \* per entry point: how many of its background workers are running
    nreq,           \* requests made so far
    lastWrite,      \* history: the last write a worker made to the manifest file or config.blk
    \* ---- config.blk (core_logic.py)
    config,         \* the bytes of <game_root>/config.blk
    backup,         \* <game_root>/config.blk.backup
    cfgLog,         \* history: the enable / disable calls made, with the file before and after
    \* ---- zip extraction (library_manager.py)
    exFs,           \* the directories and files on disk
    exCount,        \* archive members handled so far
    exStatus,       \* "running", "done" (returned) or "raised"
    exMissed,       \* history: a member that had to be extracted was not
    exLast,         \* history: the member handled last and what happened to it
    \* ---- CoreService (core_logic.py)
    game_root,      \* self.game_root: "none" until a game path has been validated
    \* ---- restore_game (core_logic.py)
    rsFs,           \* the filesystem around <game_root>/sound/mod: path -> node
    rsBefore,       \* history: rsFs when restore_game was called
    rsPc,           \* "idle", "loop", "disable", "done"
    rsPending,      \* children listed by iterdir() and not handled yet
    rsRet,          \* the value restore_game returned
    rsLog,          \* history: the children listed, how each was handled, the steps after the loop
    \* ---- install_from_library (core_logic.py)
    inPc,           \* "idle", "mkdir", "plan", "copy", "record", "config", "done"
    inPkg,          \* the package directory source_mod_path
    inList,         \* the argument install_list
    inPlan,         \* files_info
    inIdx,          \* planned files handled so far
    inRecord,       \* installed_files_record
    inMod,          \* <game_root>/sound/mod: whether it exists, its files
    inProgress,     \* the progress callbacks made, in order
    inOut,          \* how the call ended: returned a value, or raised
    inCalls,        \* history: the record_installation call made, the result of the config update
    inAttempts,     \* history: the copies attempted, each with how it ended
    inBefore,       \* history: the mod directory, the manifest and config.blk when the call was made
    \* ---- archive import (library_manager.py)
    imPc,           \* "idle", "next", "attempt", "ask", "cleanup", "done"
    imCall,         \* the call: single or batch, archives to handle, provider, 7z present
    imIdx,          \* archives handled so far
    imArc,          \* the archive being handled
    imLib,          \* the library: package name -> "absent", "old", "partial", "new"
    imPassword,     \* the local variable password of _extract_archive_with_password
    imError,        \* the exception that sent the import to its except clause
    imAsked,        \* history: the reasons the provider was invoked with for this archive
    imTried,        \* history: the passwords the extraction was attempted with for this archive
    imProgress,     \* the progress callbacks made, in order
    imOut,          \* how the call ended
    imLog,          \* history: one entry per archive handled
    \* ---- start_auto_search (main.py) beside a running install or restore
    search_running, \* self._search_running
    sePc,           \* the search thread: "idle", "detect", "report"
    seFound,        \* found_path: "none" or a game directory
    game_path,      \* the configured game path, self._cfg_mgr.get_game_path()
    manifest_mgr,   \* self._logic.manifest_mgr: the root it was built on, its construction number
    opPc,           \* the worker of install_mod / restore_game: "idle", "begin", "manifest", "config", "done"
    opUse,          \* history: what the worker was started with and what each of its steps used
    \* ---- progress of one zip extraction (library_manager.py)
    zpPc,           \* "idle", "member", "chunk", "done", "raised"
    zpCall,         \* the call: the sizes of the members in chunks, base_progress, share_progress
    zpIdx,          \* idx of the member loop
    zpRead,         \* chunks of the current member read so far
    zpBytes,        \* extracted_bytes
    zpPushed,       \* last_update is no longer 0.0: a report of the loop has been made
    zpReports,      \* history: the reports made, each with idx and extracted_bytes at that time
    \* ---- the archive password dialog (main.py)
    pwEvent,        \* self._password_event is set
    pwValue,        \* self._password_value: "None", "" or a password
    pwCancelled,    \* self._password_cancelled
    pwPc,           \* the extraction thread: "idle", "clear", "modal", "wait", "read", "returned"
    pwRet,          \* what _request_archive_password returned
    pwPrompts,      \* requests made so far
    pwCalls,        \* submit / cancel calls made so far
    pwSince,        \* history: the answers that arrived since the request cleared the state
    \* ---- the workers of the entry points and what they tell the page (main.py)
    wkPc,           \* "idle", "core", "notify"
    wkOp,           \* the entry point whose worker runs
    wkCore,         \* how the call into the core ended: "none", "ok", "failed", "raised"
    wkLog           \* history: per finished worker its entry point, the core outcome and the signal sent

manVars == <<manifest, mfile, clock, lastRec, removedSince, conflicts>>
busyVars == <<is_busy, lockHolder, thr, running, nreq, lastWrite>>

cfgVars == <<config, backup, cfgLog>>

exVars == <<exFs, exCount, exStatus, exMissed, exLast>>

rsVars == <<game_root, rsFs, rsBefore, rsPc, rsPending, rsRet, rsLog>>

inVars == <<inPc, inPkg, inList, inPlan, inIdx, inRecord, inMod, inProgress,
           inOut, inCalls, inAttempts, inBefore>>

imVars == <<imPc, imCall, imIdx, imArc, imLib, imPassword, imError, imAsked,
           imTried, imProgress, imOut, imLog>>

seVars == <<search_running, sePc, seFound, game_path, manifest_mgr, opPc, opUse>>

zpVars == <<zpPc, zpCall, zpIdx, zpRead, zpBytes, zpPushed, zpReports>>

pwVars == <<pwEvent, pwValue, pwCancelled, pwPc, pwRet, pwPrompts, pwCalls,
           pwSince>>

wkVars == <<wkPc, wkOp, wkCore, wkLog>>

vars == <<manVars, busyVars, cfgVars, exVars, rsVars, inVars, imVars, seVars,
          zpVars, pwVars>>

\* ---- bounds
\* Longest list of file names handed to record_installation / check_conflicts.
MaxFiles == 2
\* Number of record_installation calls (each call reads the clock once).
MaxClock == 3

\* API threads that may call an entry point at the same time (the webview
\* bridge runs every call of the JS API on a thread of its own).
NThreads == 2
\* Requests made in one run.
MaxRequests == 3

\* Longest initial config.blk, in tokens.
MaxCfgLen == 2
\* enable / disable calls made in one run.
MaxCalls == 2

\* Longest member name of an archive, in path segments.
MaxSegs == 4
\* Members of one archive.
MaxEntries == 2

\* Entries of install_list.
MaxList == 2

\* Members of one archive whose extraction reports progress.
MaxMembers == 3
\* Longest member, in chunks of 8192 bytes.
MaxChunks == 2

\* Password requests of one import.
MaxPrompts == 2
\* submit_archive_password / cancel_archive_password calls made in one run.
MaxAnswers == 3

\* Workers started one after the other in one run.
MaxRuns == 2
\* Files in one copy plan.
MaxPlan == 3

\* Invocations of the password provider for one archive.
MaxAsks == 2
\* Archives in the pending directory.
MaxZips == 2

\* ManifestManager objects built in one run (one per validate_game_path).
MaxManagers == 3

\* ---- helpers
Range(s) == {s[i] : i \in 1..Len(s)}

SeqsUpTo(S, n) == UNION {[1..k -> S] : k \in 0..n}

Occurrences(s, x) == Cardinality({i \in 1..Len(s) : s[i] = x})

\* ---- the busy flag of the API surface (main.py)
Threads == 1..NThreads

Ops == {"import_zips", "import_selected_zip", "install_mod", "restore_game"}

IdleThread == [pc |-> "idle", op |-> "none", sawBusy |-> FALSE]

NoWrite == [op |-> "none", busy |-> FALSE, others |-> 0]

TotalRunning ==
    running["import_zips"] + running["import_selected_zip"]
        + running["install_mod"] + running["restore_game"]

\* AppApi.__init__: self._is_busy = False, the lock free, no worker started.
BusyInit ==
    /\ is_busy = FALSE
    /\ lockHolder = 0
    /\ thr = [t \in Threads |-> IdleThread]
    /\ running = [o \in Ops |-> 0]
    /\ nreq = 0
    /\ lastWrite = NoWrite

nonBusyVars == <<manVars, cfgVars, exVars, imVars, seVars, zpVars, pwVars, wkVars, rsVars, inVars>>
nonManVars == <<busyVars, cfgVars, exVars, imVars, seVars, zpVars, pwVars, wkVars, rsVars, inVars>>
nonCfgVars == <<manVars, busyVars, exVars, imVars, seVars, zpVars, pwVars, wkVars, rsVars, inVars>>
nonExVars == <<manVars, busyVars, cfgVars, rsVars, inVars, imVars, seVars, zpVars, pwVars, wkVars>>
nonImVars == <<manVars, busyVars, cfgVars, exVars, rsVars, inVars, seVars, zpVars, pwVars, wkVars>>

\* The first statement of an entry point, on an API thread.  install_mod
\* first parses install_list and returns False when it is not JSON.
Request(t, op, parses) ==
    /\ thr[t].pc = "idle"
    /\ nreq < MaxRequests
    /\ nreq' = nreq + 1
    /\ thr' = [thr EXCEPT ![t] =
                 IF op = "install_mod"
                 THEN (IF parses THEN [pc |-> "lock", op |-> op, sawBusy |-> FALSE]
                       ELSE IdleThread)
                 ELSE [pc |-> "check", op |-> op, sawBusy |-> FALSE]]
    /\ UNCHANGED <<is_busy, lockHolder, running>>
    /\ UNCHANGED lastWrite
    /\ UNCHANGED nonBusyVars

\* What follows the unlocked test "if self._is_busy: return" when it passes.
AfterCheck(op) ==
    CASE op = "import_zips" -> "set"
      [] op = "import_selected_zip" -> "dialog"
      [] OTHER -> "validate"

\* import_zips, import_selected_zip, restore_game: "if self._is_busy: return".
CheckBusy(t) ==
    /\ thr[t].pc = "check"
    /\ thr' = [thr EXCEPT ![t] =
                 IF is_busy THEN [IdleThread EXCEPT !.sawBusy = TRUE]
                 ELSE [thr[t] EXCEPT !.pc = AfterCheck(thr[t].op)]]
    /\ UNCHANGED <<is_busy, lockHolder, running, nreq>>
    /\ UNCHANGED lastWrite
    /\ UNCHANGED nonBusyVars

\* import_selected_zip: the file dialog returns a path or nothing.
FileDialog(t, chosen) ==
    /\ thr[t].pc = "dialog"
    /\ thr' = [thr EXCEPT ![t] =
                 IF chosen THEN [thr[t] EXCEPT !.pc = "set"] ELSE IdleThread]
    /\ UNCHANGED <<is_busy, lockHolder, running, nreq>>
    /\ UNCHANGED lastWrite
    /\ UNCHANGED nonBusyVars

\* restore_game and install_mod: validate_game_path(get_game_path()).
\* restore_game returns False on an invalid path; install_mod first clears the
\* flag under the lock.
ValidatePath(t, valid) ==
    /\ thr[t].pc = "validate"
    /\ thr' = [thr EXCEPT ![t] =
                 CASE valid /\ thr[t].op = "restore_game" -> [thr[t] EXCEPT !.pc = "set"]
                   [] valid /\ thr[t].op = "install_mod" -> [thr[t] EXCEPT !.pc = "start"]
                   [] ~valid /\ thr[t].op = "install_mod" -> [thr[t] EXCEPT !.pc = "unset"]
                   [] OTHER -> IdleThread]
    /\ UNCHANGED <<is_busy, lockHolder, running, nreq>>
    /\ UNCHANGED lastWrite
    /\ UNCHANGED nonBusyVars

\* "self._is_busy = True", outside any lock.
SetBusy(t) ==
    /\ thr[t].pc = "set"
    /\ is_busy' = TRUE
    /\ thr' = [thr EXCEPT ![t].pc = "start"]
    /\ UNCHANGED <<lockHolder, running, nreq>>
    /\ UNCHANGED lastWrite
    /\ UNCHANGED nonBusyVars

\* install_mod: "with self._lock: if self._is_busy: return False".
LockCheck(t) ==
    /\ thr[t].pc = "lock"
    /\ lockHolder = 0
    /\ IF is_busy
       THEN /\ thr' = [thr EXCEPT ![t] = [IdleThread EXCEPT !.sawBusy = TRUE]]
            /\ UNCHANGED lockHolder
       ELSE /\ thr' = [thr EXCEPT ![t].pc = "lock_set"]
            /\ lockHolder' = t
    /\ UNCHANGED <<is_busy, running, nreq>>
    /\ UNCHANGED lastWrite
    /\ UNCHANGED nonBusyVars

\* install_mod: "self._is_busy = True" and the end of the with block.
LockSet(t) ==
    /\ thr[t].pc = "lock_set"
    /\ lockHolder = t
    /\ is_busy' = TRUE
    /\ lockHolder' = 0
    /\ thr' = [thr EXCEPT ![t].pc = "validate"]
    /\ UNCHANGED <<running, nreq>>
    /\ UNCHANGED lastWrite
    /\ UNCHANGED nonBusyVars

\* install_mod on an invalid path: "with self._lock: self._is_busy = False".
LockUnset(t) ==
    /\ thr[t].pc = "unset"
    /\ lockHolder = 0
    /\ is_busy' = FALSE
    /\ thr' = [thr EXCEPT ![t] = IdleThread]
    /\ UNCHANGED <<lockHolder, running, nreq>>
    /\ UNCHANGED lastWrite
    /\ UNCHANGED nonBusyVars

\* "t = threading.Thread(target=_run); t.start()" and the return.
StartWorker(t) ==
    /\ thr[t].pc = "start"
    /\ running' = [running EXCEPT ![thr[t].op] = @ + 1]
    /\ thr' = [thr EXCEPT ![t] = IdleThread]
    /\ UNCHANGED <<is_busy, lockHolder, nreq>>
    /\ UNCHANGED lastWrite
    /\ UNCHANGED nonBusyVars

\* The end of a worker's _run: "finally: self._is_busy = False" (install_mod
\* takes the lock for it).
WorkerFinish(op) ==
    /\ running[op] > 0
    /\ op = "install_mod" => lockHolder = 0
    /\ running' = [running EXCEPT ![op] = @ - 1]
    /\ is_busy' = FALSE
    /\ UNCHANGED <<lockHolder, thr, nreq>>
    /\ UNCHANGED lastWrite
    /\ UNCHANGED nonBusyVars

\* The entry points whose worker writes the manifest file and config.blk:
\* install_from_library (record_installation, _update_config_blk) and
\* restore_game (clear_manifest, _disable_config_mod).
WritingOps == {"install_mod", "restore_game"}

\* A running worker of op makes one of its writes.
WorkerWrite(op) ==
    /\ op \in WritingOps
    /\ running[op] > 0
    /\ lastWrite' = [op |-> op, busy |-> is_busy, others |-> TotalRunning - 1]
    /\ UNCHANGED <<is_busy, lockHolder, thr, running, nreq>>
    /\ UNCHANGED nonBusyVars

BusyRequest == \E t \in Threads, op \in Ops, parses \in BOOLEAN : Request(t, op, parses)
BusyCheck == \E t \in Threads : CheckBusy(t)
BusyDialog == \E t \in Threads, chosen \in BOOLEAN : FileDialog(t, chosen)
BusyValidate == \E t \in Threads, valid \in BOOLEAN : ValidatePath(t, valid)
BusySet == \E t \in Threads : SetBusy(t)
BusyLockCheck == \E t \in Threads : LockCheck(t)
BusyLockSet == \E t \in Threads : LockSet(t)
BusyLockUnset == \E t \in Threads : LockUnset(t)
BusyStart == \E t \in Threads : StartWorker(t)
BusyFinish == \E op \in Ops : WorkerFinish(op)
BusyWrite == \E op \in WritingOps : WorkerWrite(op)

BusyNext ==
    \/ BusyRequest
    \/ BusyCheck
    \/ BusyDialog
    \/ BusyValidate
    \/ BusySet
    \/ BusyLockCheck
    \/ BusyLockSet
    \/ BusyLockUnset
    \/ BusyStart
    \/ BusyFinish
    \/ BusyWrite

\* An exception between "self._is_busy = True" and the return of the entry
\* point: evaluate_js(...) of import_zips / import_selected_zip raises, or
\* t.start() raises RuntimeError.  Nothing catches it there: the call ends
\* and no worker runs.
SetupRaises(t) ==
    /\ thr[t].pc = "start"
    /\ thr' = [thr EXCEPT ![t] = IdleThread]
    /\ UNCHANGED <<is_busy, lockHolder, running, nreq>>
    /\ UNCHANGED lastWrite
    /\ UNCHANGED nonBusyVars

BusySetupRaises == \E t \in Threads : SetupRaises(t)

\* The entry points with exceptions while the worker is set up.
BusyFaultNext ==
    \/ BusyNext
    \/ BusySetupRaises

\* ---- the installation manifest
Mods == {"A", "B"}
Files == {"x", "y"}

NoOwner == "none"
NoEntry == [present |-> FALSE, files |-> <<>>, install_time |-> 0]

\* {"installed_mods": {}, "file_map": {}}: a dictionary is a total function
\* whose absent keys map to NoEntry / NoOwner.
EmptyLedger ==
    [shape |-> "ok",
     installed_mods |-> [p \in Mods |-> NoEntry],
     file_map |-> [f \in Files |-> NoOwner]]

\* A JSON value that parses but holds neither mapping (for example {}).
NoKeysLedger == [EmptyLedger EXCEPT !.shape = "noKeys"]

AbsentFile == [kind |-> "absent", data |-> EmptyLedger]
CorruptFile == [kind |-> "corrupt", data |-> EmptyLedger]
JsonFile(m) == [kind |-> "json", data |-> m]

\* ManifestManager._load_manifest
LoadManifest(file) ==
    IF file.kind = "json" THEN file.data ELSE EmptyLedger

\* ManifestManager._save_manifest; fault is "ok", "open_raises" (nothing
\* written) or "write_raises" (the file was truncated by open(..., 'w') and the
\* dump failed: what is left does not parse).  The exception is swallowed.
SaveManifest(m, file, fault) ==
    CASE fault = "ok" -> JsonFile(m)
      [] fault = "open_raises" -> file
      [] OTHER -> CorruptFile

SaveFaults == {"ok", "open_raises", "write_raises"}

\* The loop "for file_name in installed_files: file_map[file_name] = mod_name".
RECURSIVE SetOwnersFirstWins(_, _, _)
SetOwnersFirstWins(fm, mod_name, installed_files) ==
    IF installed_files = <<>> THEN fm
    ELSE SetOwnersFirstWins(
             IF fm[Head(installed_files)] = NoOwner
             THEN [fm EXCEPT ![Head(installed_files)] = mod_name]
             ELSE fm,
             mod_name, Tail(installed_files))

RECURSIVE SetOwners(_, _, _)
SetOwners(fm, mod_name, installed_files) ==
    IF installed_files = <<>> THEN fm
    ELSE SetOwners([fm EXCEPT ![Head(installed_files)] = mod_name],
                   mod_name, Tail(installed_files))

\* A record_installation that also takes the listed files out of the records
\* of the other packages.
RecordLedgerRetroactive(m, mod_name, installed_files, now) ==
    IF m.shape # "ok" THEN m
    ELSE LET Kept(f) == f \notin Range(installed_files)
         IN  [m EXCEPT
                !.installed_mods =
                    [q \in Mods |->
                        IF q = mod_name
                        THEN [present |-> TRUE, files |-> installed_files,
                              install_time |-> now]
                        ELSE [m.installed_mods[q] EXCEPT
                                !.files = SelectSeq(@, Kept)]],
                !.file_map = SetOwners(m.file_map, mod_name, installed_files)]

\* ManifestManager.record_installation, the in-memory part.  On a ledger
\* without the two mappings the first subscript raises KeyError and nothing
\* changes.
RecordLedger(m, mod_name, installed_files, now) ==
    IF m.shape # "ok" THEN m
    ELSE [m EXCEPT
            !.installed_mods[mod_name] =
                [present |-> TRUE, files |-> installed_files, install_time |-> now],
            !.file_map = SetOwners(m.file_map, mod_name, installed_files)]

\* The loop of remove_mod_record: drop the listed files still owned by mod_name.
RECURSIVE DropOwned(_, _, _)
DropOwned(fm, mod_name, files) ==
    IF files = <<>> THEN fm
    ELSE DropOwned(
             IF fm[Head(files)] = mod_name
             THEN [fm EXCEPT ![Head(files)] = NoOwner]
             ELSE fm,
             mod_name, Tail(files))

\* ManifestManager.remove_mod_record, the in-memory part.
RemoveLedger(m, mod_name) ==
    IF m.shape # "ok" \/ ~m.installed_mods[mod_name].present THEN m
    ELSE [m EXCEPT
            !.file_map = DropOwned(m.file_map, mod_name,
                                   m.installed_mods[mod_name].files),
            !.installed_mods[mod_name] = NoEntry]

\* ManifestManager.check_conflicts: one pass over files_to_install.
RECURSIVE CheckConflictsNoOwnerTest(_, _, _)
CheckConflictsNoOwnerTest(m, mod_name, files_to_install) ==
    IF files_to_install = <<>> THEN <<>>
    ELSE LET file_name == Head(files_to_install)
             file_map == IF m.shape = "ok" THEN m.file_map ELSE EmptyLedger.file_map
             rest == CheckConflictsNoOwnerTest(m, mod_name, Tail(files_to_install))
         IN  IF file_map[file_name] # NoOwner
             THEN <<[file |-> file_name,
                     existing_mod |-> file_map[file_name],
                     new_mod |-> mod_name]>> \o rest
             ELSE rest

RECURSIVE CheckConflicts(_, _, _)
CheckConflicts(m, mod_name, files_to_install) ==
    IF files_to_install = <<>> THEN <<>>
    ELSE LET file_name == Head(files_to_install)
             file_map == IF m.shape = "ok" THEN m.file_map ELSE EmptyLedger.file_map
             rest == CheckConflicts(m, mod_name, Tail(files_to_install))
         IN  IF file_map[file_name] # NoOwner /\ file_map[file_name] # mod_name
             THEN <<[file |-> file_name,
                     existing_mod |-> file_map[file_name],
                     new_mod |-> mod_name]>> \o rest
             ELSE rest

NoQuery == [asked |-> FALSE, mod_name |-> NoOwner, files |-> <<>>, result |-> <<>>]

FileLists == SeqsUpTo(Files, MaxFiles)

\* The state after ManifestManager(game_root) on a game root without a
\* manifest file.
ManInit ==
    /\ manifest = EmptyLedger
    /\ mfile = AbsentFile
    /\ clock = 0
    /\ lastRec = [f \in Files |-> NoOwner]
    /\ removedSince = FALSE
    /\ conflicts = NoQuery

\* record_installation(mod_name, installed_files)
RecordInstallation(mod_name, installed_files, fault) ==
    /\ clock < MaxClock
    /\ clock' = clock + 1
    /\ manifest' = RecordLedger(manifest, mod_name, installed_files, clock + 1)
    /\ mfile' = IF manifest.shape = "ok"
                THEN SaveManifest(manifest', mfile, fault)
                ELSE mfile
    /\ lastRec' = IF manifest.shape = "ok"
                  THEN [f \in Files |->
                          IF f \in Range(installed_files) THEN mod_name ELSE lastRec[f]]
                  ELSE lastRec
    /\ conflicts' = NoQuery
    /\ UNCHANGED removedSince

\* record_installation(mod_name, installed_files) called on its own.
RecordInstallationCall(mod_name, installed_files, fault) ==
    /\ RecordInstallation(mod_name, installed_files, fault)
    /\ UNCHANGED nonManVars

\* remove_mod_record(mod_name)
RemoveModRecord(mod_name, fault) ==
    /\ manifest' = RemoveLedger(manifest, mod_name)
    /\ mfile' = IF manifest.shape = "ok" /\ manifest.installed_mods[mod_name].present
                THEN SaveManifest(manifest', mfile, fault)
                ELSE mfile
    /\ removedSince' = (removedSince \/ manifest' # manifest)
    /\ conflicts' = NoQuery
    /\ UNCHANGED <<clock, lastRec>>
    /\ UNCHANGED nonManVars

\* clear_manifest(); unlinkFails: the unlink raised and was swallowed.
ClearManifest(unlinkFails) ==
    /\ manifest' = EmptyLedger
    /\ mfile' = IF mfile.kind = "absent" \/ unlinkFails THEN mfile ELSE AbsentFile
    /\ lastRec' = [f \in Files |-> NoOwner]
    /\ removedSince' = FALSE
    /\ conflicts' = NoQuery
    /\ UNCHANGED clock

\* clear_manifest() called on its own.
ClearManifestCall(unlinkFails) ==
    /\ ClearManifest(unlinkFails)
    /\ UNCHANGED nonManVars

\* check_conflicts(mod_name, files_to_install)
CheckConflictsCall(mod_name, files_to_install) ==
    /\ conflicts' = [asked |-> TRUE, mod_name |-> mod_name,
                     files |-> files_to_install,
                     result |-> CheckConflicts(manifest, mod_name, files_to_install)]
    /\ UNCHANGED <<manifest, mfile, clock, lastRec, removedSince>>
    /\ UNCHANGED nonManVars

\* CoreService.validate_game_path builds a new ManifestManager, which loads
\* the file.  The history restarts from what the loaded ledger says.
LoadCall ==
    /\ manifest' = LoadManifest(mfile)
    /\ manifest' # manifest
    /\ lastRec' = manifest'.file_map
    /\ removedSince' = FALSE
    /\ conflicts' = NoQuery
    /\ UNCHANGED <<mfile, clock>>
    /\ UNCHANGED nonManVars

\* The environment damages the manifest file (an edit, a crash mid-write).
TamperFile ==
    /\ mfile.kind = "json"
    /\ mfile' \in {CorruptFile, JsonFile(NoKeysLedger)}
    /\ UNCHANGED <<manifest, clock, lastRec, removedSince, conflicts>>
    /\ UNCHANGED nonManVars

\* ---- the ledger alone: every save and unlink succeeds, so the file mirrors
\* the in-memory ledger and a reload changes nothing.
ManRecord ==
    \E p \in Mods, fl \in FileLists : RecordInstallationCall(p, fl, "ok")

ManRemove == \E p \in Mods : RemoveModRecord(p, "ok")

ManClear == ClearManifestCall(FALSE)

ManCheck == \E p \in Mods, fl \in FileLists : CheckConflictsCall(p, fl)

ManNext ==
    \/ ManRecord
    \/ ManRemove
    \/ ManClear
    \/ ManCheck

\* ---- the ledger and its file: saves and unlinks may fail, the file may be
\* damaged from outside, and a new manager may be built from the file.
ManIORecord ==
    \E p \in Mods, fl \in FileLists, fault \in SaveFaults :
        RecordInstallationCall(p, fl, fault)

ManIORemove == \E p \in Mods, fault \in SaveFaults : RemoveModRecord(p, fault)

ManIOClear == \E uf \in BOOLEAN : ClearManifestCall(uf)

ManIONext ==
    \/ ManIORecord
    \/ ManIORemove
    \/ ManIOClear
    \/ LoadCall
    \/ TamperFile

\* ---- config.blk: enable and disable (core_logic.py)
\* The file is a sequence of tokens:
\*   "yes"      the text enable_mod:b=yes      "no"   the text enable_mod:b=no
\*   "sound{"   a block opener matching sound\s*\{
\*   "Sound {"  an opener that matches only through re.IGNORECASE and \s*
\*   "ws"       the "\n  " that the insertion puts before the marker
\*   "other"    any other text                 "bad"  bytes that are not UTF-8
CfgTokens == {"yes", "no", "sound{", "Sound {", "other", "bad"}

CfgContents == SeqsUpTo(CfgTokens, MaxCfgLen)

IsText(t) == t # "bad"

\* open(config, 'r', encoding='utf-8', errors='ignore').read()
Decode(bytes) == SelectSeq(bytes, IsText)

\* "enable_mod:b=yes" in content
HasEnable(content) == "yes" \in Range(content)

\* "enable_mod:b=no" in content
HasDisable(content) == "no" \in Range(content)

\* content.replace(old, new)
Replace(content, old, new) ==
    [i \in 1..Len(content) |-> IF content[i] = old THEN new ELSE content[i]]

\* re.compile(r'(sound\s*\{)', re.IGNORECASE)
IsOpener(t) == t \in {"sound{", "Sound {"}

HasOpener(content) == \E i \in 1..Len(content) : IsOpener(content[i])

\* The last match of the pattern instead of the first.
LastOpener(content) ==
    CHOOSE i \in 1..Len(content) :
        /\ IsOpener(content[i])
        /\ \A j \in (i + 1)..Len(content) : ~IsOpener(content[j])

FirstOpener(content) ==
    CHOOSE i \in 1..Len(content) :
        /\ IsOpener(content[i])
        /\ \A j \in 1..(i - 1) : ~IsOpener(content[j])

\* pattern.sub(r'\1\n  enable_mod:b=yes', content, count=1)
InsertAfterOpener(content) ==
    SubSeq(content, 1, FirstOpener(content)) \o <<"ws", "yes">>
        \o SubSeq(content, FirstOpener(content) + 1, Len(content))

\* The three branches of _update_config_blk that choose the new content
\* without the test for a marker that is already there.
NewContentNoEarlyReturn(content) ==
    CASE HasDisable(content) ->
            [kind |-> "replace", text |-> Replace(content, "no", "yes")]
      [] HasOpener(content) ->
            [kind |-> "insert", text |-> InsertAfterOpener(content)]
      [] OTHER -> [kind |-> "no_block", text |-> content]

\* A version that, finding no block, puts the marker at the end of the file.
NewContentAppends(content) ==
    CASE HasEnable(content) -> [kind |-> "already", text |-> content]
      [] HasDisable(content) ->
            [kind |-> "replace", text |-> Replace(content, "no", "yes")]
      [] HasOpener(content) ->
            [kind |-> "insert", text |-> InsertAfterOpener(content)]
      [] OTHER -> [kind |-> "insert", text |-> Append(content, "yes")]

\* The branches of _update_config_blk that choose the new content.
NewContent(content) ==
    CASE HasEnable(content) -> [kind |-> "already", text |-> content]
      [] HasDisable(content) ->
            [kind |-> "replace", text |-> Replace(content, "no", "yes")]
      [] HasOpener(content) ->
            [kind |-> "insert", text |-> InsertAfterOpener(content)]
      [] OTHER -> [kind |-> "no_block", text |-> content]

NoBackup == [exists |-> FALSE, data |-> <<>>]
BackupOf(bytes) == [exists |-> TRUE, data |-> bytes]

\* How a write of text to config.blk can end:
\*   "ok"                the file holds text
\*   "raises_before"     open(config, 'w') raised: the file is untouched
\*   "raises_truncated"  open truncated the file and write raised: it is empty
\*   "silent_drop"       no exception, but the file keeps its old bytes
WriteFaults == {"ok", "raises_before", "raises_truncated", "silent_drop"}

WriteRaises(w) == w \in {"raises_before", "raises_truncated"}

AfterWrite(bytes, text, w) ==
    CASE w = "ok" -> text
      [] w = "raises_truncated" -> <<>>
      [] OTHER -> bytes

\* The failures injected into one enable call: the backup copy, the first
\* read, the write, the read that verifies, the copy that rolls back.
EnableFaults ==
    [backup : {"ok", "raises"}, read : {"ok", "raises"}, write : WriteFaults,
     verify : {"ok", "raises"}, rollback : {"ok", "raises"}]

\* CoreService._rollback_config
RollbackConfig(bak, bytes, fault) ==
    IF bak.exists /\ fault = "ok" THEN bak.data ELSE bytes

\* CoreService._update_config_blk: the file, the backup, the value returned
\* and the path taken.
UpdateConfigBlk(bytes, bak, f) ==
    LET bak1 == IF f.backup = "ok" THEN BackupOf(bytes) ELSE bak
        content == Decode(bytes)
        new == NewContent(content)
        written == AfterWrite(bytes, new.text, f.write)
        rolled == RollbackConfig(bak1, written, f.rollback)
        rb == IF ~bak1.exists THEN "no_backup" ELSE f.rollback
    IN  CASE f.read = "raises" ->
                [config |-> bytes, backup |-> bak1, ret |-> FALSE,
                 path |-> "read_error", rollback |-> "none"]
          [] new.kind = "already" ->
                [config |-> bytes, backup |-> bak1, ret |-> TRUE,
                 path |-> "already", rollback |-> "none"]
          [] new.kind = "no_block" ->
                [config |-> bytes, backup |-> bak1, ret |-> FALSE,
                 path |-> "no_block", rollback |-> "none"]
          [] WriteRaises(f.write) ->
                [config |-> rolled, backup |-> bak1, ret |-> FALSE,
                 path |-> "write_raised", rollback |-> rb]
          [] f.verify = "raises" ->
                [config |-> rolled, backup |-> bak1, ret |-> FALSE,
                 path |-> "verify_raised", rollback |-> rb]
          [] ~HasEnable(Decode(written)) ->
                [config |-> rolled, backup |-> bak1, ret |-> FALSE,
                 path |-> "verify_failed", rollback |-> rb]
          [] OTHER ->
                [config |-> written, backup |-> bak1, ret |-> TRUE,
                 path |-> "written", rollback |-> "none"]

DisableFaults == [read : {"ok", "raises"}, write : WriteFaults]

\* CoreService._disable_config_mod
DisableConfigMod(bytes, f) ==
    LET new_c == Replace(Decode(bytes), "yes", "no")
    IN  CASE f.read = "raises" ->
                [config |-> bytes, ret |-> FALSE, path |-> "read_error"]
          [] WriteRaises(f.write) ->
                [config |-> AfterWrite(bytes, new_c, f.write), ret |-> FALSE,
                 path |-> "write_raised"]
          [] OTHER ->
                [config |-> AfterWrite(bytes, new_c, f.write), ret |-> TRUE,
                 path |-> "written"]

\* A validated game root: config.blk exists, no backup has been made yet.
CfgInit ==
    /\ config \in CfgContents
    /\ backup = NoBackup
    /\ cfgLog = <<>>

\* The other specifications start from one config.blk.
CfgRest ==
    /\ config = <<"sound{", "no">>
    /\ backup = NoBackup
    /\ cfgLog = <<>>

\* enable(): one call of _update_config_blk.
Enable(f) ==
    /\ Len(cfgLog) < MaxCalls
    /\ LET r == UpdateConfigBlk(config, backup, f)
       IN  /\ config' = r.config
           /\ backup' = r.backup
           /\ cfgLog' = Append(cfgLog,
                  [op |-> "enable", path |-> r.path, ret |-> r.ret,
                   before |-> config, after |-> r.config,
                   backupFault |-> f.backup, rollback |-> r.rollback])
    /\ UNCHANGED nonCfgVars

\* disable(): one call of _disable_config_mod.
Disable(f) ==
    /\ Len(cfgLog) < MaxCalls
    /\ LET r == DisableConfigMod(config, f)
       IN  /\ config' = r.config
           /\ cfgLog' = Append(cfgLog,
                  [op |-> "disable", path |-> r.path, ret |-> r.ret,
                   before |-> config, after |-> r.config,
                   backupFault |-> "none", rollback |-> "none"])
    /\ UNCHANGED backup
    /\ UNCHANGED nonCfgVars

CfgEnable == \E f \in EnableFaults : Enable(f)

CfgDisable == \E f \in DisableFaults : Disable(f)

CfgNext ==
    \/ CfgEnable
    \/ CfgDisable

\* ---- zip extraction (library_manager.py)
\* A path is the sequence of its segments below the filesystem root, so <<>>
\* is the root; a member name is a sequence of segments that may hold "..".
\* The library directory is /lib and the package being imported is /lib/t.
SegNames == {"t", "o"}

DotDot == ".."

LibraryDir == <<"lib">>

\* target_dir = self.library_dir / mod_name
TargetDir == <<"lib", "t">>

MemberNames ==
    {n \in SeqsUpTo(SegNames \cup {DotDot}, MaxSegs) : n # <<>>}

\* ZipInfo of one member: its name, whether the name ends in "/", whether the
\* name contains "__MACOSX" or "desktop.ini".
Members == [segs : MemberNames, isdir : BOOLEAN, special : BOOLEAN]

Parent(path) ==
    IF path = <<>> THEN <<>> ELSE SubSeq(path, 1, Len(path) - 1)

StepInto(cur, seg) ==
    IF seg = DotDot THEN Parent(cur) ELSE Append(cur, seg)

RECURSIVE ResolveFrom(_, _)
\* Path.resolve() of cur / segs; no symbolic link exists below the library.
ResolveFrom(cur, segs) ==
    IF segs = <<>> THEN cur
    ELSE ResolveFrom(StepInto(cur, Head(segs)), Tail(segs))

IsPrefix(a, b) ==
    /\ Len(a) <= Len(b)
    /\ SubSeq(b, 1, Len(a)) = a

\* os.path.commonpath([full_target_path, target_root]) == target_root
IsInside(segs) == IsPrefix(TargetDir, ResolveFrom(TargetDir, segs))

RECURSIVE MkdirParents(_, _, _)
\* Path.mkdir(parents=True, exist_ok=True) of cur / segs. The path is handed
\* to the operating system as written, so every prefix of it is made to exist
\* from left to right, and a regular file in the way raises.
MkdirParents(fs, cur, segs) ==
    IF segs = <<>> THEN [fs |-> fs, ok |-> TRUE]
    ELSE LET nxt == StepInto(cur, Head(segs))
         IN  IF nxt \in fs.files THEN [fs |-> fs, ok |-> FALSE]
             ELSE MkdirParents([fs EXCEPT !.dirs = @ \cup {nxt}],
                               nxt, Tail(segs))

\* What can go wrong while one member is copied: nothing, zf.open raises
\* (password, damaged member), or the copy raises after the target file
\* was opened.
CopyFaults == {"ok", "open_raises", "write_raises"}

\* The body of the member loop of _extract_zip_safely for one member.
ExtractMember(fs, m, io) ==
    LET dest == ResolveFrom(TargetDir, m.segs)
        made == IF m.isdir
                THEN MkdirParents(fs, TargetDir, m.segs)
                ELSE MkdirParents(fs, TargetDir, Parent(m.segs))
    IN  CASE m.special -> [fs |-> fs, outcome |-> "special"]
          [] ~IsInside(m.segs) -> [fs |-> fs, outcome |-> "skipped"]
          [] ~made.ok -> [fs |-> made.fs, outcome |-> "raised"]
          [] m.isdir -> [fs |-> made.fs, outcome |-> "extracted"]
          [] io = "open_raises" -> [fs |-> made.fs, outcome |-> "raised"]
          [] dest \in made.fs.dirs -> [fs |-> made.fs, outcome |-> "raised"]
          [] io = "write_raises" ->
                [fs |-> [made.fs EXCEPT !.files = @ \cup {dest}],
                 outcome |-> "raised"]
          [] OTHER ->
                [fs |-> [made.fs EXCEPT !.files = @ \cup {dest}],
                 outcome |-> "extracted"]

NoMember == [segs |-> <<>>, isdir |-> FALSE, special |-> FALSE,
             outcome |-> "none", io |-> "ok"]

\* unzip_single_zip has just created the empty target directory.
FreshLibrary == [dirs |-> {<<>>, LibraryDir, TargetDir}, files |-> {}]

ExInit ==
    /\ exFs = FreshLibrary
    /\ exCount = 0
    /\ exStatus = "running"
    /\ exMissed = FALSE
    /\ exLast = NoMember

\* The other specifications do not extract.
ExRest ==
    /\ exFs = FreshLibrary
    /\ exCount = 0
    /\ exStatus = "done"
    /\ exMissed = FALSE
    /\ exLast = NoMember

\* One round of the member loop.
ExtractStep(m, io) ==
    /\ exStatus = "running"
    /\ exCount < MaxEntries
    /\ LET r == ExtractMember(exFs, m, io)
       IN  /\ exFs' = r.fs
           /\ exStatus' = IF r.outcome = "raised" THEN "raised" ELSE "running"
           /\ exMissed' = ( \/ exMissed
                            \/ /\ ~m.special
                               /\ IsInside(m.segs)
                               /\ io = "ok"
                               /\ r.outcome # "extracted" )
           /\ exLast' = [segs |-> m.segs, isdir |-> m.isdir,
                         special |-> m.special, outcome |-> r.outcome,
                         io |-> io]
    /\ exCount' = exCount + 1
    /\ UNCHANGED nonExVars

\* The loop has gone through file_list: _extract_zip_safely returns.
ExtractReturn ==
    /\ exStatus = "running"
    /\ exStatus' = "done"
    /\ UNCHANGED <<exFs, exCount, exMissed, exLast>>
    /\ UNCHANGED nonExVars

ExMember == \E m \in Members, io \in CopyFaults : ExtractStep(m, io)

ExNext ==
    \/ ExMember
    \/ ExtractReturn

\* ---- restore_game (core_logic.py)
\* The game root is /g. A node of the filesystem is nothing, a regular file,
\* a directory or a symbolic link with its target.
ModDir == <<"g", "sound", "mod">>

SoundDir == <<"g", "sound">>

OutFile == <<"g", "keep.txt">>

OutDir == <<"home">>

ChildNames == {"a", "b"}

\* ManifestManager.manifest_file is a child of the mod directory; its content
\* is the variable mfile.
ManifestName == ".manifest.json"

Child(n) == Append(ModDir, n)

Nested(n) == Append(Child(n), "in")

RsPaths ==
    {ModDir, SoundDir, OutFile, OutDir}
        \cup {Child(n) : n \in ChildNames} \cup {Nested(n) : n \in ChildNames}

NoNode == [kind |-> "none", target |-> <<>>]
FileNode == [kind |-> "file", target |-> <<>>]
DirNode == [kind |-> "dir", target |-> <<>>]
LinkTo(t) == [kind |-> "link", target |-> t]

LoopPath == <<"*", "loop">>

\* A chain of links through the children is a loop when it is longer than this.
LinkFuel == Cardinality(ChildNames) + 1

RECURSIVE ResolveLinks(_, _, _)
\* Path.resolve(): follow the links; a loop makes it raise.
ResolveLinks(fs, path, fuel) ==
    IF path \in DOMAIN fs /\ fs[path].kind = "link"
    THEN IF fuel = 0 THEN LoopPath
         ELSE ResolveLinks(fs, fs[path].target, fuel - 1)
    ELSE path

\* The same test made on the path as listed, without resolve().
IsSafeUnresolved(fs, root, target_path) ==
    /\ root # "none"
    /\ IsPrefix(ModDir, target_path)
    /\ target_path # ModDir

\* CoreService._is_safe_deletion_path
IsSafeDeletionPath(fs, root, target_path) ==
    /\ root # "none"
    /\ LET tp == ResolveLinks(fs, target_path, LinkFuel)
       IN  /\ tp # LoopPath
           /\ IsPrefix(ModDir, tp)
           /\ tp # ModDir

KindAt(fs, path) == IF path \in DOMAIN fs THEN fs[path].kind ELSE "none"

\* Path.is_file() and Path.is_dir() follow links.
IsFileAt(fs, path) == KindAt(fs, ResolveLinks(fs, path, LinkFuel)) = "file"

IsDirAt(fs, path) == KindAt(fs, ResolveLinks(fs, path, LinkFuel)) = "dir"

\* How a deletion can end: done, raised with nothing deleted, raised after
\* rmtree had deleted what is below the directory.
RemoveFaults == {"ok", "raises", "raises_partial"}

\* CoreService._remove_path: unlink for a file or a link, rmtree for a directory.
RemovePath(fs, path, fault) ==
    CASE IsFileAt(fs, path) \/ fs[path].kind = "link" ->
            IF fault = "ok" THEN [fs EXCEPT ![path] = NoNode] ELSE fs
      [] IsDirAt(fs, path) ->
            [q \in DOMAIN fs |->
                IF /\ IsPrefix(path, q)
                   /\ \/ fault = "ok"
                      \/ fault = "raises_partial" /\ q # path
                THEN NoNode ELSE fs[q]]
      [] OTHER -> fs

\* What a child of the mod directory can be when restore_game starts: the
\* child itself and the entry below it.
LinkTargets(n) ==
    {OutFile, OutDir, ModDir, SoundDir} \cup {Child(m) : m \in ChildNames}

ChildShapes(n) ==
    {<<NoNode, NoNode>>, <<FileNode, NoNode>>, <<DirNode, NoNode>>,
     <<DirNode, FileNode>>, <<DirNode, LinkTo(OutFile)>>}
        \cup {<<LinkTo(t), NoNode>> : t \in LinkTargets(n)}

BaseFs ==
    [q \in RsPaths |->
        CASE q \in {ModDir, SoundDir, OutDir} -> DirNode
          [] q = OutFile -> FileNode
          [] OTHER -> NoNode]

NoModDirFs == [BaseFs EXCEPT ![ModDir] = NoNode]

FsWith(sa, sb) ==
    [BaseFs EXCEPT ![Child("a")] = sa[1], ![Nested("a")] = sa[2],
                   ![Child("b")] = sb[1], ![Nested("b")] = sb[2]]

RsStartFs ==
    {NoModDirFs}
        \cup {FsWith(sa, sb) : sa \in ChildShapes("a"), sb \in ChildShapes("b")}

\* The ledger of a game in which package A was installed with file x.
InstalledLedger == RecordLedger(EmptyLedger, "A", <<"x">>, 1)

ListedNames == ChildNames \cup {ManifestName}

NoRestoreLog ==
    [listed |-> {},
     outcome |-> [n \in ListedNames |-> "none"],
     round |-> [n \in ListedNames |-> 0],
     cleared |-> FALSE,
     disabled |-> FALSE]

\* The loop goes to the next child once its round is over, which the catching
\* of PermissionError and OSError makes true of a failed deletion too.  This
\* version leaves the loop at the first deletion that fails.
RemainingAfterBreaks(pending, n, outcome) ==
    IF outcome \in {"raises", "raises_partial"} THEN {} ELSE pending \ {n}

RemainingAfter(pending, n, outcome) == pending \ {n}

\* A validated game path with something installed, or no game path at all.
RsInit ==
    /\ rsPc = "idle"
    /\ rsLog = NoRestoreLog
    /\ rsPending = {}
    /\ rsRet = FALSE
    /\ clock = 1
    /\ removedSince = FALSE
    /\ conflicts = NoQuery
    /\ backup = NoBackup
    /\ cfgLog = <<>>
    /\ \/ /\ game_root = "g"
          /\ rsFs \in RsStartFs
          /\ config \in {<<"sound{", "yes">>, <<"bad", "yes", "no">>}
          /\ \/ /\ rsFs[ModDir].kind = "dir"
                /\ manifest = InstalledLedger
                /\ mfile = JsonFile(InstalledLedger)
                /\ lastRec = InstalledLedger.file_map
             \/ /\ manifest = EmptyLedger
                /\ mfile = AbsentFile
                /\ lastRec = EmptyLedger.file_map
       \/ /\ game_root = "none"
          /\ rsFs = BaseFs
          /\ config = <<"sound{", "yes">>
          /\ manifest = EmptyLedger
          /\ mfile = AbsentFile
          /\ lastRec = EmptyLedger.file_map
    /\ rsBefore = rsFs

\* The other specifications do not restore.
RsRest ==
    /\ rsLog = NoRestoreLog
    /\ game_root = "g"
    /\ rsFs = BaseFs
    /\ rsBefore = BaseFs
    /\ rsPc = "idle"
    /\ rsPending = {}
    /\ rsRet = FALSE

ListedChildren ==
    {n \in ChildNames : rsFs[Child(n)].kind # "none"}
        \cup (IF mfile.kind # "absent" THEN {ManifestName} ELSE {})

\* restore_game up to the listing of the mod directory.
RestoreBegin(iterFails) ==
    /\ rsPc = "idle"
    /\ rsBefore' = rsFs
    /\ CASE game_root = "none" ->
                /\ rsPc' = "done"
                /\ rsRet' = FALSE
                /\ rsPending' = {}
         [] rsFs[ModDir].kind # "dir" ->
                /\ rsPc' = "loop"
                /\ rsPending' = {}
                /\ UNCHANGED rsRet
         [] iterFails ->
                /\ rsPc' = "done"
                /\ rsRet' = FALSE
                /\ rsPending' = {}
         [] OTHER ->
                /\ rsPc' = "loop"
                /\ rsPending' = ListedChildren
                /\ UNCHANGED rsRet
    /\ rsLog' = [NoRestoreLog EXCEPT !.listed = rsPending']
    /\ UNCHANGED <<game_root, rsFs>>
    /\ UNCHANGED <<manVars, busyVars, cfgVars, exVars, imVars, seVars, zpVars, pwVars, wkVars, inVars>>

\* One round of the loop over the children: the safety test, then _remove_path
\* with PermissionError and OSError caught.
RestoreItem(n, fault) ==
    /\ rsPc = "loop"
    /\ n \in rsPending
    /\ LET outcome == IF IsSafeDeletionPath(rsFs, game_root, Child(n))
                      THEN fault ELSE "refused"
       IN  /\ rsPending' = RemainingAfter(rsPending, n, outcome)
           /\ rsLog' = [rsLog EXCEPT
                  !.outcome[n] = outcome,
                  !.round[n] = Cardinality(rsLog.listed \ rsPending) + 1]
    /\ IF ~IsSafeDeletionPath(rsFs, game_root, Child(n))
       THEN UNCHANGED <<rsFs, mfile>>
       ELSE IF n = ManifestName
            THEN /\ mfile' = IF fault = "ok" THEN AbsentFile ELSE mfile
                 /\ UNCHANGED rsFs
            ELSE /\ rsFs' = RemovePath(rsFs, Child(n), fault)
                 /\ UNCHANGED mfile
    /\ UNCHANGED <<game_root, rsBefore, rsPc, rsRet>>
    /\ UNCHANGED <<manifest, clock, lastRec, removedSince, conflicts>>
    /\ UNCHANGED <<busyVars, cfgVars, exVars, imVars, seVars, zpVars, pwVars, wkVars, inVars>>

\* After the loop: manifest_mgr.clear_manifest(), exceptions caught.
RestoreClear(unlinkFails) ==
    /\ rsPc = "loop"
    /\ rsPending = {}
    /\ ClearManifest(unlinkFails)
    /\ rsPc' = "disable"
    /\ rsLog' = [rsLog EXCEPT !.cleared = TRUE]
    /\ UNCHANGED <<game_root, rsFs, rsBefore, rsPending, rsRet>>
    /\ UNCHANGED <<busyVars, cfgVars, exVars, imVars, seVars, zpVars, pwVars, wkVars, inVars>>

\* _disable_config_mod(), its result dropped, then return True.
RestoreDisable(f) ==
    /\ rsPc = "disable"
    /\ config' = DisableConfigMod(config, f).config
    /\ rsPc' = "done"
    /\ rsRet' = TRUE
    /\ rsLog' = [rsLog EXCEPT !.disabled = TRUE]
    /\ UNCHANGED <<backup, cfgLog>>
    /\ UNCHANGED <<game_root, rsFs, rsBefore, rsPending>>
    /\ UNCHANGED <<manVars, busyVars, exVars, imVars, seVars, zpVars, pwVars, wkVars, inVars>>

RsBegin == \E iterFails \in BOOLEAN : RestoreBegin(iterFails)

RsItem ==
    \E n \in ChildNames \cup {ManifestName}, fault \in RemoveFaults :
        RestoreItem(n, fault)

RsClear == \E unlinkFails \in BOOLEAN : RestoreClear(unlinkFails)

RsDisable == \E f \in DisableFaults : RestoreDisable(f)

RsNext ==
    \/ RsBegin
    \/ RsItem
    \/ RsClear
    \/ RsDisable

\* ---- install_from_library (core_logic.py)
\* The package directory holds files at its top and may hold one folder "sub";
\* the content of a source file is the place it comes from.
RootName == "root_dir"      \* the install_list entry that selects the package itself

FileSeq == <<"x", "y">>     \* the files of a directory in the order os.walk lists them

ListOf(S) == SelectSeq(FileSeq, LAMBDA f : f \in S)

NoPackage == [exists |-> FALSE, top |-> {}, hasSub |-> FALSE, sub |-> {}]

Packages ==
    {NoPackage}
        \cup [exists : {TRUE}, top : SUBSET Files, hasSub : {FALSE}, sub : {{}}]
        \cup [exists : {TRUE}, top : SUBSET Files, hasSub : {TRUE}, sub : {{"x"}}]

FolderNames == {RootName, "sub", "missing"}

\* install_list: None, a list of folder names, or a value that is no list.
InstallLists ==
    {[kind |-> "none", items |-> <<>>], [kind |-> "malformed", items |-> <<>>]}
        \cup [kind : {"list"}, items : SeqsUpTo(FolderNames, MaxList)]

PlanEntries(dir, names, folder) ==
    [i \in 1..Len(names) |->
        [src |-> <<dir, names[i]>>, dest |-> names[i], folder |-> folder]]

\* os.walk(src_dir) for one entry of install_list: a folder that does not
\* exist is passed over; the walk of the package itself goes into "sub".
WalkFolder(pkg, folder) ==
    CASE folder = RootName /\ pkg.exists ->
            PlanEntries("top", ListOf(pkg.top), folder)
                \o PlanEntries("sub", ListOf(pkg.sub), folder)
      [] folder = "sub" /\ pkg.exists /\ pkg.hasSub ->
            PlanEntries("sub", ListOf(pkg.sub), folder)
      [] OTHER -> <<>>

RECURSIVE PlanFor(_, _)
\* files_info: the walks of the listed folders one after the other.
PlanFor(pkg, items) ==
    IF items = <<>> THEN <<>>
    ELSE WalkFolder(pkg, Head(items)) \o PlanFor(pkg, Tail(items))

\* progress_callback is AppApi.update_loading_ui, which catches every
\* exception: a callback only adds to the list of reports.
Report(progress, pct, msg) == Append(progress, [pct |-> pct, msg |-> msg])

\* A copy loop that reports the share of the whole bar, not of its copy band.
CopyPercentOfWhole(done, total) == (done * 100) \div total

\* int(15 + (idx + 1) / total_files_to_copy * 80), done counting idx + 1.
CopyPercent(done, total) == 15 + ((done * 80) \div total)

NoOutcome == [returned |-> FALSE, value |-> FALSE, raised |-> FALSE]
Returned(v) == [returned |-> TRUE, value |-> v, raised |-> FALSE]
Raised == [returned |-> FALSE, value |-> FALSE, raised |-> TRUE]

\* A handler that lets the exception go on to the caller without a report.
InstallFailedReraises(progress) == [progress |-> progress, out |-> Raised]

\* The two except clauses that end install_from_library.
InstallFailed(progress) ==
    [progress |-> Report(progress, 100, "failed"), out |-> Returned(FALSE)]

NoFile == "none"

NoModDir == [exists |-> FALSE, files |-> [f \in Files |-> NoFile]]
EmptyModDir == [exists |-> TRUE, files |-> [f \in Files |-> NoFile]]
UsedModDir == [EmptyModDir EXCEPT !.files["x"] = "old"]

NoCalls == [recorded |-> FALSE, mod_name |-> NoOwner, files |-> <<>>,
            configured |-> FALSE, configRet |-> FALSE]

Copy2Faults == {"ok", "raises", "raises_partial"}

NoSnapshot == [taken |-> FALSE]

Snapshot ==
    [taken |-> TRUE, mod |-> inMod, manifest |-> manifest, mfile |-> mfile,
     config |-> config, backup |-> backup]

\* A step 1 that empties the directory, as the comment "no longer delete the
\* old files" says it once did.
RecreateModDir(mod) == [exists |-> TRUE, files |-> [f \in Files |-> NoFile]]

\* Step 1 done: the directory exists, what was in it is still there.
EnsureModDir(mod) == [mod EXCEPT !.exists = TRUE]

\* The record step taken whatever was copied.
ShouldRecordAlways(record) == TRUE

\* "if self.manifest_mgr and total_files > 0"; the manager exists once a game
\* path has been validated.
ShouldRecord(record) == Len(record) > 0

\* A selection test that lets the empty list through.
NoneSelectedOnlyNone(il) == il.kind = "none"

\* "if not install_list or len(install_list) == 0"
NoneSelected(il) == il.kind = "none" \/ (il.kind = "list" /\ il.items = <<>>)

\* A copy loop that stops at the first copy that raises.
AfterCopyStops(done, total, fault) ==
    IF done = total \/ fault # "ok" THEN "record" ELSE "copy"

\* Where the copy loop goes after one round: every exception of the round is
\* caught inside the loop.
AfterCopy(done, total, fault) == IF done = total THEN "record" ELSE "copy"

\* A walk that lists the files at the top of the folder only.
WalkNamesTopOnly(pkg, folder) ==
    CASE folder = RootName /\ pkg.exists -> ListOf(pkg.top)
      [] folder = "sub" /\ pkg.exists /\ pkg.hasSub -> ListOf(pkg.sub)
      [] OTHER -> <<>>

\* check_install_conflicts: the names os.walk(src_dir) gives for one entry of
\* install_list, nothing for a folder that does not exist.
WalkNames(pkg, folder) ==
    CASE folder = RootName /\ pkg.exists -> ListOf(pkg.top) \o ListOf(pkg.sub)
      [] folder = "sub" /\ pkg.exists /\ pkg.hasSub -> ListOf(pkg.sub)
      [] OTHER -> <<>>

RECURSIVE FilesToInstall(_, _)
\* files_to_install: the names of the listed folders one after the other.
FilesToInstall(pkg, items) ==
    IF items = <<>> THEN <<>>
    ELSE WalkNames(pkg, Head(items)) \o FilesToInstall(pkg, Tail(items))

\* What check_install_conflicts hands to check_conflicts: nothing when the
\* package directory is missing or install_list cannot be iterated.
CheckedNames(pkg, il) ==
    IF pkg.exists /\ il.kind = "list" THEN FilesToInstall(pkg, il.items) ELSE <<>>

InInit ==
    /\ inPc = "idle"
    /\ inPkg = NoPackage
    /\ inList = [kind |-> "none", items |-> <<>>]
    /\ inPlan = <<>>
    /\ inIdx = 0
    /\ inRecord = <<>>
    /\ inMod \in {NoModDir, UsedModDir}
    /\ inProgress = <<>>
    /\ inOut = NoOutcome
    /\ inCalls = NoCalls
    /\ inAttempts = <<>>
    /\ inBefore = NoSnapshot

\* The other specifications do not install.
InRest ==
    /\ inPc = "idle"
    /\ inPkg = NoPackage
    /\ inList = [kind |-> "none", items |-> <<>>]
    /\ inPlan = <<>>
    /\ inIdx = 0
    /\ inRecord = <<>>
    /\ inMod = EmptyModDir
    /\ inProgress = <<>>
    /\ inOut = NoOutcome
    /\ inCalls = NoCalls
    /\ inAttempts = <<>>
    /\ inBefore = NoSnapshot

\* The call ends through one of the except clauses.
InFail ==
    /\ inProgress' = InstallFailed(inProgress).progress
    /\ inOut' = InstallFailed(inProgress).out
    /\ inPc' = "done"

\* The call, the report of 5 and the test of game_root.
InstallBegin(pkg, il) ==
    /\ inPc = "idle"
    /\ (il.kind = "list" => Len(PlanFor(pkg, il.items)) <= MaxPlan)
    /\ inPkg' = pkg
    /\ inList' = il
    /\ IF game_root = "none"
       THEN /\ inProgress' = InstallFailed(Report(inProgress, 5, "prepare")).progress
            /\ inOut' = InstallFailed(Report(inProgress, 5, "prepare")).out
            /\ inPc' = "done"
       ELSE /\ inProgress' = Report(inProgress, 5, "prepare")
            /\ inPc' = "mkdir"
            /\ UNCHANGED inOut
    /\ inBefore' = Snapshot
    /\ UNCHANGED <<inPlan, inIdx, inRecord, inMod, inCalls, inAttempts>>
    /\ UNCHANGED <<manVars, busyVars, cfgVars, exVars, imVars, seVars, zpVars, pwVars, wkVars, rsVars>>

\* Step 1: the mod directory is created when it is missing; an OSError
\* becomes InstallError. Then the report of 10.
InstallMkdir(fault) ==
    /\ inPc = "mkdir"
    /\ IF fault = "raises"
       THEN /\ InFail
            /\ UNCHANGED inMod
       ELSE /\ inMod' = EnsureModDir(inMod)
            /\ inProgress' = Report(inProgress, 10, "scan")
            /\ inPc' = "plan"
            /\ UNCHANGED inOut
    /\ UNCHANGED <<inPkg, inList, inPlan, inIdx, inRecord, inCalls, inAttempts,
                   inBefore>>
    /\ UNCHANGED <<manVars, busyVars, cfgVars, exVars, imVars, seVars, zpVars, pwVars, wkVars, rsVars>>

\* The test of install_list and the walk that fills files_info.
InstallPlan(fault) ==
    /\ inPc = "plan"
    /\ LET plan == PlanFor(inPkg, inList.items)
       IN  CASE inList.kind = "malformed" ->
                    /\ InFail
                    /\ UNCHANGED inPlan
             [] NoneSelected(inList) ->
                    /\ inProgress' = Report(inProgress, 100, "none_selected")
                    /\ inOut' = Returned(FALSE)
                    /\ inPc' = "done"
                    /\ UNCHANGED inPlan
             [] fault = "raises" ->
                    /\ InFail
                    /\ UNCHANGED inPlan
             [] plan = <<>> ->
                    /\ inProgress' = Report(inProgress, 100, "no_files")
                    /\ inOut' = Returned(FALSE)
                    /\ inPc' = "done"
                    /\ UNCHANGED inPlan
             [] OTHER ->
                    /\ inProgress' = Report(inProgress, 15, "count")
                    /\ inPlan' = plan
                    /\ inPc' = "copy"
                    /\ UNCHANGED inOut
    /\ UNCHANGED <<inPkg, inList, inIdx, inRecord, inMod, inCalls, inAttempts,
                   inBefore>>
    /\ UNCHANGED <<manVars, busyVars, cfgVars, exVars, imVars, seVars, zpVars, pwVars, wkVars, rsVars>>

\* One round of the copy loop: shutil.copy2 with every exception caught; due
\* says whether 0.1 s have passed since the last report.
InstallCopy(fault, due) ==
    /\ inPc = "copy"
    /\ inIdx < Len(inPlan)
    /\ LET e == inPlan[inIdx + 1]
           last == (inIdx + 1 = Len(inPlan))
       IN  /\ inMod' = CASE fault = "ok" -> [inMod EXCEPT !.files[e.dest] = e.src]
                         [] fault = "raises_partial" ->
                                [inMod EXCEPT !.files[e.dest] = "partial"]
                         [] OTHER -> inMod
           /\ inRecord' = IF fault = "ok" THEN Append(inRecord, e.dest) ELSE inRecord
           /\ inProgress' = IF fault = "ok" /\ (due \/ last)
                            THEN Report(inProgress,
                                        CopyPercent(inIdx + 1, Len(inPlan)), "copy")
                            ELSE inProgress
    /\ inAttempts' = Append(inAttempts, [entry |-> inIdx + 1, fault |-> fault])
    /\ inIdx' = inIdx + 1
    /\ inPc' = AfterCopy(inIdx + 1, Len(inPlan), fault)
    /\ UNCHANGED <<inPkg, inList, inPlan, inOut, inCalls, inBefore>>
    /\ UNCHANGED <<manVars, busyVars, cfgVars, exVars, imVars, seVars, zpVars, pwVars, wkVars, rsVars>>

\* record_installation when a file was copied, its exceptions caught; then the
\* report of 95.
InstallRecord(fault) ==
    /\ inPc = "record"
    /\ IF ShouldRecord(inRecord)
       THEN /\ RecordInstallation("A", inRecord, fault)
            /\ inCalls' = [inCalls EXCEPT !.recorded = TRUE, !.mod_name = "A",
                                          !.files = inRecord]
       ELSE /\ UNCHANGED manVars
            /\ UNCHANGED inCalls
    /\ inProgress' = Report(inProgress, 95, "config")
    /\ inPc' = "config"
    /\ UNCHANGED <<inPkg, inList, inPlan, inIdx, inRecord, inMod, inOut,
                   inAttempts, inBefore>>
    /\ UNCHANGED <<busyVars, cfgVars, exVars, imVars, seVars, zpVars, pwVars, wkVars, rsVars>>

\* Step 3: _update_config_blk(), its result dropped; the report of 100 and
\* return True.
InstallConfig(f) ==
    /\ inPc = "config"
    /\ LET r == UpdateConfigBlk(config, backup, f)
       IN  /\ config' = r.config
           /\ backup' = r.backup
           /\ inCalls' = [inCalls EXCEPT !.configured = TRUE, !.configRet = r.ret]
    /\ inProgress' = Report(inProgress, 100, "complete")
    /\ inOut' = Returned(TRUE)
    /\ inPc' = "done"
    /\ UNCHANGED cfgLog
    /\ UNCHANGED <<inPkg, inList, inPlan, inIdx, inRecord, inMod, inAttempts,
                   inBefore>>
    /\ UNCHANGED <<manVars, busyVars, exVars, imVars, seVars, zpVars, pwVars, wkVars, rsVars>>

InBegin == \E pkg \in Packages, il \in InstallLists : InstallBegin(pkg, il)

InMkdir == \E fault \in {"ok", "raises"} : InstallMkdir(fault)

InPlan == \E fault \in {"ok", "raises"} : InstallPlan(fault)

InCopy == \E fault \in Copy2Faults, due \in BOOLEAN : InstallCopy(fault, due)

InRecord == \E fault \in {"ok", "write_raises"} : InstallRecord(fault)

InConfig == \E f \in EnableFaults : InstallConfig(f)

InNext ==
    \/ InBegin
    \/ InMkdir
    \/ InPlan
    \/ InCopy
    \/ InRecord
    \/ InConfig

\* ---- copy_country_files (main.py, library_manager.py)
\* found is the set of destination names <prefix><code>.bank and
\* <prefix><code>.assets.bank for which the package has a source file.
\* _copy_pair: a destination that exists is skipped, the others are copied.
CopyPairs(mod, found) ==
    [exists |-> TRUE,
     files |-> [f \in Files |->
                  IF f \in found /\ mod.files[f] = NoFile THEN "country"
                  ELSE mod.files[f]]]

\* AppApi.copy_country_files with a valid configured path: validate_game_path
\* builds a new manager, which loads the manifest file; the mod directory is
\* made and the pairs are copied.  No busy test, no call of the manager.
CopyCountryFiles(found) ==
    /\ game_root # "none"
    /\ inMod' = CopyPairs(inMod, found)
    /\ inMod' # inMod
    /\ IF LoadManifest(mfile) = manifest
       THEN UNCHANGED manVars
       ELSE /\ manifest' = LoadManifest(mfile)
            /\ lastRec' = manifest'.file_map
            /\ removedSince' = FALSE
            /\ conflicts' = NoQuery
            /\ UNCHANGED <<mfile, clock>>
    /\ UNCHANGED <<inPc, inPkg, inList, inPlan, inIdx, inRecord, inProgress,
                   inOut, inCalls, inAttempts, inBefore>>
    /\ UNCHANGED <<busyVars, cfgVars, exVars, imVars, seVars, zpVars, pwVars, wkVars, rsVars>>

InCountry == \E found \in SUBSET Files : CopyCountryFiles(found)

\* Installations with copies of country files beside them.
ModDirNext ==
    \/ InNext
    \/ InCountry

\* ---- archive import (library_manager.py)
\* An archive is known by the package name its file name gives (zip_path.stem),
\* its suffix, whether its members are encrypted (the password is "good") and
\* what else is special about it.
Stems == {"p", "q"}

Archives ==
    [stem : Stems, suffix : {"zip", "rar", "other"}, encrypted : BOOLEAN,
     kind : {"plain", "unsupported_method", "corrupt"}]

\* The values of the variable password: None, the empty string, two strings.
Passwords == {"None", "empty", "good", "bad"}

\* "if password" / "not password"
Truthy(pw) == pw \notin {"None", "empty"}

\* _extract_with_7z: "ok", or the exception it raises.
ExtractWith7z(arc, pw, has7z) ==
    CASE ~has7z -> "error"
      [] arc.kind = "corrupt" -> "error"
      [] arc.encrypted /\ pw # "good" ->
            IF Truthy(pw) THEN "incorrect" ELSE "required"
      [] OTHER -> "ok"

\* _extract_zip_safely as the password loop sees it.
ExtractZipSafely(arc, pw) ==
    CASE arc.kind = "corrupt" -> "error"
      [] arc.encrypted /\ ~Truthy(pw) -> "required"
      [] arc.kind = "unsupported_method" -> "not_implemented"
      [] arc.encrypted /\ pw # "good" -> "incorrect"
      [] OTHER -> "ok"

\* The try body of _extract_archive_with_password: one extraction attempt.
ExtractOnce(arc, pw, has7z) ==
    CASE arc.suffix = "zip" ->
            IF ExtractZipSafely(arc, pw) = "not_implemented"
            THEN ExtractWith7z(arc, pw, has7z)
            ELSE ExtractZipSafely(arc, pw)
      [] arc.suffix = "rar" -> ExtractWith7z(arc, pw, has7z)
      [] OTHER -> "error"

ImCalls ==
    [mode : {"single"}, total : {1}, provider : BOOLEAN, has7z : BOOLEAN]
        \cup [mode : {"batch"}, total : 0..MaxZips, provider : BOOLEAN,
              has7z : BOOLEAN]

NoImCall == [mode |-> "single", total |-> 1, provider |-> FALSE, has7z |-> FALSE]

NoArchive == [stem |-> "p", suffix |-> "zip", encrypted |-> FALSE,
              kind |-> "plain", dirBefore |-> "absent"]

NoImOut == [returned |-> FALSE, raised |-> "none"]

\* base_progress + share_progress as update_loading_ui shows it.
EndPercent ==
    IF imCall.mode = "single" THEN 100
    ELSE ((imIdx + 1) * 100) \div imCall.total

ImInit ==
    /\ imPc = "idle"
    /\ imCall = NoImCall
    /\ imIdx = 0
    /\ imArc = NoArchive
    /\ imLib \in [Stems -> {"absent", "old"}]
    /\ imPassword = "None"
    /\ imError = "none"
    /\ imAsked = <<>>
    /\ imTried = <<>>
    /\ imProgress = <<>>
    /\ imOut = NoImOut
    /\ imLog = <<>>

\* The other specifications do not import.
ImRest ==
    /\ imPc = "idle"
    /\ imCall = NoImCall
    /\ imIdx = 0
    /\ imArc = NoArchive
    /\ imLib = [st \in Stems |-> "absent"]
    /\ imPassword = "None"
    /\ imError = "none"
    /\ imAsked = <<>>
    /\ imTried = <<>>
    /\ imProgress = <<>>
    /\ imOut = NoImOut
    /\ imLog = <<>>

\* The handling of one archive is over: unzip_single_zip returns or raises
\* exc, the loop of unzip_zips_to_library goes on to the next archive.
ArchiveEnds(arc, result, exc, lib, progress, asked, tried) ==
    /\ imLib' = lib
    /\ imProgress' = progress
    /\ imLog' = Append(imLog,
           [stem |-> arc.stem, result |-> result, dirBefore |-> arc.dirBefore,
            dirAfter |-> lib[arc.stem], asked |-> asked, tried |-> tried])
    /\ imIdx' = imIdx + 1
    /\ IF imCall.mode = "single"
       THEN /\ imPc' = "done"
            /\ imOut' = [returned |-> exc = "none", raised |-> exc]
       ELSE /\ imPc' = "next"
            /\ UNCHANGED imOut

\* unzip_single_zip(zip_path) or unzip_zips_to_library() is called.
ImportCall(call) ==
    /\ imPc = "idle"
    /\ imCall' = call
    /\ IF call.total = 0
       THEN /\ imProgress' = Report(imProgress, 100, "no_files")
            /\ imOut' = [returned |-> TRUE, raised |-> "none"]
            /\ imPc' = "done"
       ELSE /\ imPc' = "next"
            /\ UNCHANGED <<imProgress, imOut>>
    /\ UNCHANGED <<imIdx, imArc, imLib, imPassword, imError, imAsked, imTried,
                   imLog>>
    /\ UNCHANGED nonImVars

\* The tests made before the extraction of one archive, and target_dir.mkdir().
ImportNext(a, exists, diskShort, mkdirFails) ==
    /\ imPc = "next"
    /\ imIdx < imCall.total
    /\ imCall.mode = "batch" => (a.suffix # "other" /\ exists /\ ~diskShort)
    /\ LET arc == [stem |-> a.stem, suffix |-> a.suffix,
                   encrypted |-> a.encrypted, kind |-> a.kind,
                   dirBefore |-> imLib[a.stem]]
           ends(result, exc, progress) ==
               /\ ArchiveEnds(arc, result, exc, imLib, progress, <<>>, <<>>)
               /\ UNCHANGED <<imPassword, imError, imAsked, imTried>>
       IN  /\ imArc' = arc
           /\ CASE ~exists -> ends("missing", "none", imProgress)
                [] imCall.mode = "single" /\ a.suffix = "other" ->
                       ends("bad_suffix", "ValueError", imProgress)
                [] diskShort -> ends("disk_short", "Exception", imProgress)
                [] imLib[a.stem] # "absent" ->
                       ends("skipped_dup", "none",
                            Report(imProgress, EndPercent,
                                   IF imCall.mode = "single"
                                   THEN "dup_skipped" ELSE "skipped"))
                [] mkdirFails -> ends("mkdir_failed", "Exception", imProgress)
                [] OTHER ->
                       /\ imLib' = [imLib EXCEPT ![a.stem] = "partial"]
                       /\ imPc' = "attempt"
                       /\ imPassword' = "None"
                       /\ imError' = "none"
                       /\ imAsked' = <<>>
                       /\ imTried' = <<>>
                       /\ UNCHANGED <<imIdx, imProgress, imOut, imLog>>
    /\ UNCHANGED imCall
    /\ UNCHANGED nonImVars

\* One pass of the loop of _extract_archive_with_password up to the return or
\* the except clause; io is a failure of the disk during the extraction.
ImportAttempt(io) ==
    /\ imPc = "attempt"
    /\ imTried' = Append(imTried, imPassword)
    /\ LET r == IF io = "fails" THEN "error"
                ELSE ExtractOnce(imArc, imPassword, imCall.has7z)
       IN  CASE r = "ok" ->
                    /\ ArchiveEnds(imArc, "ok", "none",
                                   [imLib EXCEPT ![imArc.stem] = "new"],
                                   Report(imProgress, EndPercent, "extracted"),
                                   imAsked, imTried')
                    /\ UNCHANGED imError
             [] r \in {"required", "incorrect"} /\ imCall.provider ->
                    /\ imError' = r
                    /\ imPc' = "ask"
                    /\ UNCHANGED <<imIdx, imLib, imProgress, imOut, imLog>>
             [] OTHER ->
                    /\ imError' = r
                    /\ imPc' = "cleanup"
                    /\ UNCHANGED <<imIdx, imLib, imProgress, imOut, imLog>>
    /\ UNCHANGED <<imCall, imArc, imPassword, imAsked>>
    /\ UNCHANGED nonImVars

\* password = password_provider(archive_path, reason); None cancels.
ImportAsk(answer) ==
    /\ imPc = "ask"
    /\ Len(imAsked) < MaxAsks
    /\ imAsked' = Append(imAsked, imError)
    /\ IF answer = "None"
       THEN /\ imError' = "canceled"
            /\ imPc' = "cleanup"
            /\ UNCHANGED imPassword
       ELSE /\ imPassword' = answer
            /\ imPc' = "attempt"
            /\ UNCHANGED imError
    /\ UNCHANGED <<imCall, imIdx, imArc, imLib, imTried, imProgress, imOut, imLog>>
    /\ UNCHANGED nonImVars

ExceptionOf(err) ==
    CASE err = "canceled" -> "ArchivePasswordCanceled"
      [] err = "required" -> "ArchivePasswordRequired"
      [] err = "incorrect" -> "ArchivePasswordIncorrect"
      [] OTHER -> "Exception"

\* The except clauses of the import: shutil.rmtree(target_dir) with its own
\* failure passed over; unzip_single_zip raises again, the batch goes on.
ImportCleanup(rmtreeFails) ==
    /\ imPc = "cleanup"
    /\ ArchiveEnds(imArc,
                   IF imError = "error" THEN "failed" ELSE imError,
                   IF imCall.mode = "single" THEN ExceptionOf(imError) ELSE "none",
                   IF rmtreeFails THEN imLib
                   ELSE [imLib EXCEPT ![imArc.stem] = "absent"],
                   IF imCall.mode = "batch" /\ imError = "canceled"
                   THEN Report(imProgress, EndPercent, "skipped")
                   ELSE imProgress,
                   imAsked, imTried)
    /\ UNCHANGED <<imCall, imArc, imPassword, imError, imAsked, imTried>>
    /\ UNCHANGED nonImVars

\* The loop of unzip_zips_to_library is over: the report 100, all done.
ImportFinish ==
    /\ imPc = "next"
    /\ imCall.mode = "batch"
    /\ imIdx = imCall.total
    /\ imProgress' = Report(imProgress, 100, "all_done")
    /\ imOut' = [returned |-> TRUE, raised |-> "none"]
    /\ imPc' = "done"
    /\ UNCHANGED <<imCall, imIdx, imArc, imLib, imPassword, imError, imAsked,
                   imTried, imLog>>
    /\ UNCHANGED nonImVars

ImCall == \E call \in ImCalls : ImportCall(call)

ImNext ==
    \E a \in Archives, exists, diskShort, mkdirFails \in BOOLEAN :
        ImportNext(a, exists, diskShort, mkdirFails)

ImAttempt == \E io \in {"ok", "fails"} : ImportAttempt(io)

ImAsk == \E answer \in Passwords : ImportAsk(answer)

ImCleanup == \E rmtreeFails \in BOOLEAN : ImportCleanup(rmtreeFails)

ImportNextStep ==
    \/ ImCall
    \/ ImNext
    \/ ImAttempt
    \/ ImAsk
    \/ ImCleanup
    \/ ImportFinish

\* ---- start_auto_search beside a running install or restore (main.py)
\* Two game directories pass validate_game_path: g and h.
GameDirs == {"g", "h"}

NoManager == [root |-> "none", gen |-> 0]

NoUse ==
    [kind |-> "none", root |-> "none", mgr |-> NoManager, dirRoot |-> "none",
     usedMgr |-> NoManager, cfgRoot |-> "none"]

\* CoreService.validate_game_path on a valid directory: self.game_root = path
\* and a new ManifestManager built on it.
NewManager(path) == [root |-> path, gen |-> manifest_mgr.gen + 1]

\* init_app_state has validated the configured path, if one is configured.
SeInit ==
    /\ search_running = FALSE
    /\ sePc = "idle"
    /\ seFound = "none"
    /\ game_path \in GameDirs \cup {"none"}
    /\ manifest_mgr = IF game_path = "none" THEN NoManager
                      ELSE [root |-> game_path, gen |-> 1]
    /\ opPc = "idle"
    /\ opUse = NoUse

\* The other specifications make no search.
SeRest ==
    /\ search_running = FALSE
    /\ sePc = "idle"
    /\ seFound = "none"
    /\ game_path = "g"
    /\ manifest_mgr = [root |-> "g", gen |-> 1]
    /\ opPc = "idle"
    /\ opUse = NoUse

seOthers == <<manVars, busyVars, cfgVars, exVars, inVars, imVars, zpVars, pwVars, wkVars>>

rsOthers == <<rsFs, rsBefore, rsPc, rsPending, rsRet, rsLog>>

\* AppApi.install_mod / AppApi.restore_game up to t.start(): the configured
\* path is validated, which sets game_root and builds a manager, and the
\* worker is started.  Without a valid path the call returns False.
StartOperation(kind) ==
    /\ opPc = "idle"
    /\ game_path # "none"
    /\ manifest_mgr.gen < MaxManagers
    /\ game_root' = game_path
    /\ manifest_mgr' = NewManager(game_path)
    /\ opPc' = "begin"
    /\ opUse' = [NoUse EXCEPT !.kind = kind, !.root = game_path,
                              !.mgr = manifest_mgr']
    /\ UNCHANGED <<search_running, sePc, seFound, game_path>>
    /\ UNCHANGED <<seOthers, rsOthers>>

\* The worker computes <self.game_root>/sound/mod and works on that directory
\* (the copies of install_from_library, the deletions of restore_game).
OperationBegin ==
    /\ opPc = "begin"
    /\ opUse' = [opUse EXCEPT !.dirRoot = game_root]
    /\ opPc' = "manifest"
    /\ UNCHANGED <<search_running, sePc, seFound, game_path, manifest_mgr>>
    /\ UNCHANGED <<game_root, seOthers, rsOthers>>

\* self.manifest_mgr.record_installation(...) / .clear_manifest()
OperationManifest ==
    /\ opPc = "manifest"
    /\ opUse' = [opUse EXCEPT !.usedMgr = manifest_mgr]
    /\ opPc' = "config"
    /\ UNCHANGED <<search_running, sePc, seFound, game_path, manifest_mgr>>
    /\ UNCHANGED <<game_root, seOthers, rsOthers>>

\* _update_config_blk() / _disable_config_mod() on <self.game_root>/config.blk
OperationConfig ==
    /\ opPc = "config"
    /\ opUse' = [opUse EXCEPT !.cfgRoot = game_root]
    /\ opPc' = "done"
    /\ UNCHANGED <<search_running, sePc, seFound, game_path, manifest_mgr>>
    /\ UNCHANGED <<game_root, seOthers, rsOthers>>

\* The worker is over; another operation may be started.
OperationEnd ==
    /\ opPc = "done"
    /\ opPc' = "idle"
    /\ UNCHANGED <<search_running, sePc, seFound, game_path, manifest_mgr, opUse>>
    /\ UNCHANGED <<game_root, seOthers, rsOthers>>

\* start_auto_search: "if self._search_running: return", then the thread.
SearchStart ==
    /\ ~search_running
    /\ sePc = "idle"
    /\ search_running' = TRUE
    /\ sePc' = "detect"
    /\ UNCHANGED <<seFound, game_path, manifest_mgr, opPc, opUse>>
    /\ UNCHANGED <<game_root, seOthers, rsOthers>>

\* found_path = self._logic.auto_detect_game_path()
SearchDetect(found) ==
    /\ sePc = "detect"
    /\ seFound' = found
    /\ sePc' = "report"
    /\ UNCHANGED <<search_running, game_path, manifest_mgr, opPc, opUse>>
    /\ UNCHANGED <<game_root, seOthers, rsOthers>>

\* The end of the search thread: set_game_path(found_path) and
\* validate_game_path(found_path) when a directory was found.
SearchReport ==
    /\ sePc = "report"
    /\ IF seFound = "none"
       THEN UNCHANGED <<game_path, game_root, manifest_mgr>>
       ELSE /\ manifest_mgr.gen < MaxManagers
            /\ game_path' = seFound
            /\ game_root' = seFound
            /\ manifest_mgr' = NewManager(seFound)
    /\ search_running' = FALSE
    /\ sePc' = "idle"
    /\ UNCHANGED <<seFound, opPc, opUse>>
    /\ UNCHANGED <<seOthers, rsOthers>>

\* browse_folder: the directory chosen in the dialog is validated, which sets
\* game_root and builds a manager, and then saved as the configured path.
BrowseFolder(path) ==
    /\ manifest_mgr.gen < MaxManagers
    /\ game_root' = path
    /\ manifest_mgr' = NewManager(path)
    /\ game_path' = path
    /\ UNCHANGED <<search_running, sePc, seFound, opPc, opUse>>
    /\ UNCHANGED <<seOthers, rsOthers>>

SeStart == \E kind \in {"install", "restore"} : StartOperation(kind)

SeBrowse == \E path \in GameDirs : BrowseFolder(path)

SeDetect == \E found \in GameDirs \cup {"none"} : SearchDetect(found)

SeNext ==
    \/ SeStart
    \/ OperationBegin
    \/ OperationManifest
    \/ OperationConfig
    \/ OperationEnd
    \/ SearchStart
    \/ SeDetect
    \/ SearchReport

\* The operations and the search with a user who picks a directory meanwhile.
SeBrowseNext ==
    \/ SeNext
    \/ SeBrowse

\* ---- progress of _extract_zip_safely (library_manager.py)
\* A member is its size in chunks; a directory entry and an empty file are
\* members of size 0.  A chunk counts as one byte.
ZipArchives == SeqsUpTo(0..MaxChunks, MaxMembers)

\* base_progress and share_progress: a single import, the halves of a batch of two.
ProgressRanges == {<<0, 100>>, <<0, 50>>, <<50, 50>>}

NoZipCall == [members |-> <<>>, base |-> 0, share |-> 100]

RECURSIVE SumSizes(_)
\* total_bytes: the sum of file_size over the members.
SumSizes(members) ==
    IF members = <<>> THEN 0 ELSE Head(members) + SumSizes(Tail(members))

\* should_push
ShouldPush(idx, total) == idx = 0 \/ idx % 10 = 0 \/ idx = total - 1

\* int(base_progress + ratio * share_progress), ratio = num / den.
Percent(base, share, num, den) == base + ((num * share) \div den)

\* The report at the head of a round of the member loop: ratio = idx / total_files.
MemberPercent(call, idx, bytes) ==
    Percent(call.base, call.share, idx, Len(call.members))

\* The report after a chunk: the bytes when total_bytes > 0, else the entries.
ChunkPercent(call, idx, bytes) ==
    IF SumSizes(call.members) > 0
    THEN Percent(call.base, call.share, bytes, SumSizes(call.members))
    ELSE Percent(call.base, call.share, idx, Len(call.members))

ZpReport(pct, kind, idx, bytes) ==
    [pct |-> pct, kind |-> kind, idx |-> idx, bytes |-> bytes]

ZpInit ==
    /\ zpPc = "idle"
    /\ zpCall = NoZipCall
    /\ zpIdx = 0
    /\ zpRead = 0
    /\ zpBytes = 0
    /\ zpPushed = FALSE
    /\ zpReports = <<>>

\* The other specifications extract without a progress callback.
ZpRest ==
    /\ zpPc = "idle"
    /\ zpCall = NoZipCall
    /\ zpIdx = 0
    /\ zpRead = 0
    /\ zpBytes = 0
    /\ zpPushed = FALSE
    /\ zpReports = <<>>

zpOthers == <<manVars, busyVars, cfgVars, exVars, rsVars, inVars, imVars, seVars,
              pwVars, wkVars>>

\* The call up to the member loop: the report of base_progress and the sum
\* of the sizes.
ZipBegin(members, range) ==
    /\ zpPc = "idle"
    /\ zpCall' = [members |-> members, base |-> range[1], share |-> range[2]]
    /\ zpReports' = <<ZpReport(range[1], "start", 0, 0)>>
    /\ zpPc' = "member"
    /\ UNCHANGED <<zpIdx, zpRead, zpBytes, zpPushed>>
    /\ UNCHANGED zpOthers

\* The head of one round of the member loop; due says whether 0.05 s have
\* passed since last_update, which they have while last_update is 0.0.  A
\* member that cannot be opened raises.
ZipMember(due, fault) ==
    /\ zpPc = "member"
    /\ zpIdx < Len(zpCall.members)
    /\ LET push == /\ ShouldPush(zpIdx, Len(zpCall.members))
                   /\ (due \/ ~zpPushed)
           size == zpCall.members[zpIdx + 1]
       IN  /\ zpReports' = IF push
                           THEN Append(zpReports,
                                       ZpReport(MemberPercent(zpCall, zpIdx, zpBytes),
                                                "member", zpIdx, zpBytes))
                           ELSE zpReports
           /\ zpPushed' = (zpPushed \/ push)
           /\ CASE fault = "raises" /\ size > 0 ->
                       /\ zpPc' = "raised"
                       /\ UNCHANGED zpIdx
                [] fault = "ok" /\ size > 0 ->
                       /\ zpPc' = "chunk"
                       /\ UNCHANGED zpIdx
                [] OTHER ->
                       /\ zpPc' = "member"
                       /\ zpIdx' = zpIdx + 1
    /\ zpRead' = 0
    /\ UNCHANGED <<zpCall, zpBytes>>
    /\ UNCHANGED zpOthers

\* One chunk read and written; due says whether 0.2 s have passed since
\* last_update.
ZipChunk(due) ==
    /\ zpPc = "chunk"
    /\ zpBytes' = zpBytes + 1
    /\ zpReports' = IF due
                    THEN Append(zpReports,
                                ZpReport(ChunkPercent(zpCall, zpIdx, zpBytes + 1),
                                         "chunk", zpIdx, zpBytes + 1))
                    ELSE zpReports
    /\ IF zpRead + 1 = zpCall.members[zpIdx + 1]
       THEN /\ zpPc' = "member"
            /\ zpIdx' = zpIdx + 1
            /\ zpRead' = 0
       ELSE /\ zpRead' = zpRead + 1
            /\ UNCHANGED <<zpPc, zpIdx>>
    /\ UNCHANGED <<zpCall, zpPushed>>
    /\ UNCHANGED zpOthers

\* The loop is over: the report of base_progress + share_progress.
ZipFinish ==
    /\ zpPc = "member"
    /\ zpIdx = Len(zpCall.members)
    /\ zpReports' = Append(zpReports,
                           ZpReport(zpCall.base + zpCall.share, "done", zpIdx, zpBytes))
    /\ zpPc' = "done"
    /\ UNCHANGED <<zpCall, zpIdx, zpRead, zpBytes, zpPushed>>
    /\ UNCHANGED zpOthers

ZpBegin == \E members \in ZipArchives, range \in ProgressRanges : ZipBegin(members, range)

ZpMember == \E due \in BOOLEAN, fault \in {"ok", "raises"} : ZipMember(due, fault)

ZpChunk == \E due \in BOOLEAN : ZipChunk(due)

ZpNext ==
    \/ ZpBegin
    \/ ZpMember
    \/ ZpChunk
    \/ ZipFinish

\* ---- the archive password dialog (main.py)
\* What the user may type; str(password) of an empty field is "".
Typed == {"", "a", "b"}

CancelAnswer == "cancel"

\* The value a request returns when answer is the one it reads.
ResultOf(answer) == IF answer = CancelAnswer THEN "None" ELSE answer

PwInit ==
    /\ pwEvent = FALSE
    /\ pwValue = "None"
    /\ pwCancelled = FALSE
    /\ pwPc = "idle"
    /\ pwRet = "None"
    /\ pwPrompts = 0
    /\ pwCalls = 0
    /\ pwSince = <<>>

\* The other specifications open no password dialog.
PwRest ==
    /\ pwEvent = FALSE
    /\ pwValue = "None"
    /\ pwCancelled = FALSE
    /\ pwPc = "idle"
    /\ pwRet = "None"
    /\ pwPrompts = 0
    /\ pwCalls = 0
    /\ pwSince = <<>>

pwOthers == <<manVars, busyVars, cfgVars, exVars, rsVars, inVars, imVars, seVars,
              zpVars, wkVars>>

\* The request is open once it has cleared the state and until it has read
\* the answer.
RequestOpen == pwPc \in {"modal", "wait", "read"}

\* The second locked block of _request_archive_password: None when the flag
\* is set, else the value, as they are when the lock is taken.
ReadUnderLock(cancelled, value) == IF cancelled THEN "None" ELSE value

\* submit_archive_password(password)
SubmitArchivePassword(password) ==
    /\ pwCalls < MaxAnswers
    /\ pwCalls' = pwCalls + 1
    /\ pwValue' = password
    /\ pwCancelled' = FALSE
    /\ pwEvent' = TRUE
    /\ pwSince' = IF RequestOpen THEN Append(pwSince, password) ELSE pwSince
    /\ UNCHANGED <<pwPc, pwRet, pwPrompts>>
    /\ UNCHANGED pwOthers

\* cancel_archive_password()
CancelArchivePassword ==
    /\ pwCalls < MaxAnswers
    /\ pwCalls' = pwCalls + 1
    /\ pwValue' = "None"
    /\ pwCancelled' = TRUE
    /\ pwEvent' = TRUE
    /\ pwSince' = IF RequestOpen THEN Append(pwSince, CancelAnswer) ELSE pwSince
    /\ UNCHANGED <<pwPc, pwRet, pwPrompts>>
    /\ UNCHANGED pwOthers

\* _request_archive_password is called by the extraction thread (the window
\* exists).
RequestBegin ==
    /\ pwPc \in {"idle", "returned"}
    /\ pwPrompts < MaxPrompts
    /\ pwPrompts' = pwPrompts + 1
    /\ pwPc' = "clear"
    /\ UNCHANGED <<pwEvent, pwValue, pwCancelled, pwRet, pwCalls, pwSince>>
    /\ UNCHANGED pwOthers

\* The first locked block: the event is cleared, the value and the flag reset.
RequestClear ==
    /\ pwPc = "clear"
    /\ pwEvent' = FALSE
    /\ pwValue' = "None"
    /\ pwCancelled' = FALSE
    /\ pwSince' = <<>>
    /\ pwPc' = "modal"
    /\ UNCHANGED <<pwRet, pwPrompts, pwCalls>>
    /\ UNCHANGED pwOthers

\* app.openArchivePasswordModal(...) is sent to the page.
RequestModal ==
    /\ pwPc = "modal"
    /\ pwPc' = "wait"
    /\ UNCHANGED <<pwEvent, pwValue, pwCancelled, pwRet, pwPrompts, pwCalls, pwSince>>
    /\ UNCHANGED pwOthers

\* self._password_event.wait() returns once the event is set.
RequestWake ==
    /\ pwPc = "wait"
    /\ pwEvent
    /\ pwPc' = "read"
    /\ UNCHANGED <<pwEvent, pwValue, pwCancelled, pwRet, pwPrompts, pwCalls, pwSince>>
    /\ UNCHANGED pwOthers

\* The second locked block and the return.
RequestRead ==
    /\ pwPc = "read"
    /\ pwRet' = ReadUnderLock(pwCancelled, pwValue)
    /\ pwPc' = "returned"
    /\ UNCHANGED <<pwEvent, pwValue, pwCancelled, pwPrompts, pwCalls, pwSince>>
    /\ UNCHANGED pwOthers

PwSubmit == \E password \in Typed : SubmitArchivePassword(password)

PwNext ==
    \/ PwSubmit
    \/ CancelArchivePassword
    \/ RequestBegin
    \/ RequestClear
    \/ RequestModal
    \/ RequestWake
    \/ RequestRead

\* ---- the workers of install_mod, restore_game and import_zips (main.py)
\* The page is told of the end of an operation by evaluate_js: "success" is
\* app.onInstallSuccess / app.onRestoreSuccess / the loading bar at 100 with
\* "done", "failure" is the loading bar at 100 with "failed", "none" is no
\* call at all.
WorkerOps == {"install_mod", "restore_game", "import_zips"}

\* How the call into the core can end.  install_from_library and
\* CoreService.restore_game catch every exception and return False;
\* unzip_zips_to_library returns None also when an archive failed, and
\* raises when scan_pending does.
CoreOutcomes(op) ==
    IF op = "import_zips" THEN {"ok", "failed", "raised"} ELSE {"ok", "failed"}

\* _run: the value the core returned is not looked at; the success calls
\* follow whenever the core call returned, the except clause of install_mod
\* and import_zips sends "failed", restore_game has no except clause.
SignalSent(op, core) ==
    CASE core # "raised" -> "success"
      [] core = "raised" /\ op = "restore_game" -> "none"
      [] OTHER -> "failure"

WkInit ==
    /\ wkPc = "idle"
    /\ wkOp = "none"
    /\ wkCore = "none"
    /\ wkLog = <<>>

\* The other specifications start no worker of this kind.
WkRest ==
    /\ wkPc = "idle"
    /\ wkOp = "none"
    /\ wkCore = "none"
    /\ wkLog = <<>>

wkOthers == <<manVars, busyVars, cfgVars, exVars, rsVars, inVars, imVars, seVars,
              zpVars, pwVars>>

\* t.start(): the worker of an accepted request begins.
WorkerBegin(op) ==
    /\ wkPc = "idle"
    /\ Len(wkLog) < MaxRuns
    /\ wkOp' = op
    /\ wkCore' = "none"
    /\ wkPc' = "core"
    /\ UNCHANGED wkLog
    /\ UNCHANGED wkOthers

\* install_from_library(...) / restore_game() / unzip_zips_to_library(...)
WorkerCore(core) ==
    /\ wkPc = "core"
    /\ core \in CoreOutcomes(wkOp)
    /\ wkCore' = core
    /\ wkPc' = "notify"
    /\ UNCHANGED <<wkOp, wkLog>>
    /\ UNCHANGED wkOthers

\* The rest of _run: the calls to the page and the finally block.
WorkerNotify ==
    /\ wkPc = "notify"
    /\ wkLog' = Append(wkLog, [op |-> wkOp, core |-> wkCore,
                               signal |-> SignalSent(wkOp, wkCore)])
    /\ wkPc' = "idle"
    /\ UNCHANGED <<wkOp, wkCore>>
    /\ UNCHANGED wkOthers

WkBegin == \E op \in WorkerOps : WorkerBegin(op)

WkCore == \E core \in {"ok", "failed", "raised"} : WorkerCore(core)

WkNext ==
    \/ WkBegin
    \/ WkCore
    \/ WorkerNotify

\* ---- specifications
AllInit ==
    /\ BusyInit
    /\ ManInit
    /\ CfgRest
    /\ ExRest
    /\ RsRest
    /\ InRest
    /\ ImRest
    /\ SeRest
    /\ ZpRest
    /\ PwRest
    /\ WkRest

SpecBusy == AllInit /\ [][BusyNext]_vars

SpecBusyFaults == AllInit /\ [][BusyFaultNext]_vars

SpecManifest == AllInit /\ [][ManNext]_vars

SpecManifestIO == AllInit /\ [][ManIONext]_vars

ConfigInit ==
    /\ CfgInit
    /\ BusyInit
    /\ ManInit
    /\ ExRest
    /\ RsRest
    /\ InRest
    /\ ImRest
    /\ SeRest
    /\ ZpRest
    /\ PwRest
    /\ WkRest

SpecConfig == ConfigInit /\ [][CfgNext]_vars

ExtractInit ==
    /\ ExInit
    /\ BusyInit
    /\ ManInit
    /\ CfgRest
    /\ RsRest
    /\ InRest
    /\ ImRest
    /\ SeRest
    /\ ZpRest
    /\ PwRest
    /\ WkRest

SpecExtract == ExtractInit /\ [][ExNext]_vars

RestoreInit ==
    /\ RsInit
    /\ BusyInit
    /\ ExRest
    /\ InRest
    /\ ImRest
    /\ SeRest
    /\ ZpRest
    /\ PwRest
    /\ WkRest

SpecRestore == RestoreInit /\ [][RsNext]_vars

\* A game path was validated (or none was), nothing is installed yet.
InstallInit ==
    /\ InInit
    /\ ImRest
    /\ SeRest
    /\ ZpRest
    /\ PwRest
    /\ WkRest
    /\ BusyInit
    /\ clock = 1
    /\ removedSince = FALSE
    /\ conflicts = NoQuery
    /\ manifest \in {EmptyLedger, RecordLedger(EmptyLedger, "B", <<"x">>, 1)}
    /\ mfile = IF manifest = EmptyLedger THEN AbsentFile ELSE JsonFile(manifest)
    /\ lastRec = manifest.file_map
    /\ ExRest
    /\ config \in {<<"sound{", "no">>, <<"other">>}
    /\ backup = NoBackup
    /\ cfgLog = <<>>
    /\ game_root \in {"g", "none"}
    /\ rsFs = BaseFs
    /\ rsBefore = BaseFs
    /\ rsPc = "idle"
    /\ rsPending = {}
    /\ rsRet = FALSE
    /\ rsLog = NoRestoreLog

SpecInstall == InstallInit /\ [][InNext]_vars

SpecModDir == InstallInit /\ [][ModDirNext]_vars

ImportInit ==
    /\ ImInit
    /\ SeRest
    /\ ZpRest
    /\ PwRest
    /\ WkRest
    /\ BusyInit
    /\ ManInit
    /\ CfgRest
    /\ ExRest
    /\ RsRest
    /\ InRest

SpecImport == ImportInit /\ [][ImportNextStep]_vars

SearchInit ==
    /\ SeInit
    /\ ZpRest
    /\ PwRest
    /\ WkRest
    /\ game_root = game_path
    /\ rsFs = BaseFs
    /\ rsBefore = BaseFs
    /\ rsPc = "idle"
    /\ rsPending = {}
    /\ rsRet = FALSE
    /\ rsLog = NoRestoreLog
    /\ BusyInit
    /\ ManInit
    /\ CfgRest
    /\ ExRest
    /\ InRest
    /\ ImRest

SpecSearch == SearchInit /\ [][SeNext]_vars

ZipInit ==
    /\ ZpInit
    /\ BusyInit
    /\ ManInit
    /\ CfgRest
    /\ ExRest
    /\ RsRest
    /\ InRest
    /\ ImRest
    /\ SeRest
    /\ PwRest
    /\ WkRest

SpecZip == ZipInit /\ [][ZpNext]_vars

PasswordInit ==
    /\ PwInit
    /\ BusyInit
    /\ ManInit
    /\ CfgRest
    /\ ExRest
    /\ RsRest
    /\ InRest
    /\ ImRest
    /\ SeRest
    /\ ZpRest
    /\ WkRest

SpecPassword == PasswordInit /\ [][PwNext]_vars

WorkerInit ==
    /\ WkInit
    /\ BusyInit
    /\ ManInit
    /\ CfgRest
    /\ ExRest
    /\ RsRest
    /\ InRest
    /\ ImRest
    /\ SeRest
    /\ ZpRest
    /\ PwRest

SpecWorker == WorkerInit /\ [][WkNext]_vars

SpecBrowse == SearchInit /\ [][SeBrowseNext]_vars

\* ---- claims about the busy flag

\* C1: at most one background worker of the long-running entry points runs at
\* any time, and a request made while an operation is running finds the flag
\* set (so it returns without starting a worker).
C1_OneWorkerAtATime ==
    /\ TotalRunning <= 1
    /\ TotalRunning >= 1 => is_busy

\* ---- claims about the manifest

\* C2: after record_installation calls alone (none removed since the last
\* clear_manifest), file_map gives every file exactly one owner, and it is the
\* package named by the most recent record_installation call that listed the
\* file; a file no call listed has no owner.
C2_LatestRecordOwns ==
    (~removedSince /\ manifest.shape = "ok") =>
        \A f \in Files : manifest.file_map[f] = lastRec[f]

\* A recorded x, then B recorded x: B owns x.
C2_Witness ==
    /\ ~removedSince
    /\ manifest.installed_mods["A"].present
    /\ "x" \in Range(manifest.installed_mods["A"].files)
    /\ manifest.installed_mods["B"].present
    /\ manifest.installed_mods["B"].install_time > manifest.installed_mods["A"].install_time
    /\ lastRec["x"] = "B"
    /\ manifest.file_map["x"] = "B"

RecordsNaming(R, f) == Cardinality({i \in 1..Len(R) : R[i].file = f})

\* C3: check_conflicts(p, F) returns one record {file f, existing owner q, new
\* owner p} for each listed f whose current file_map owner q differs from p,
\* and none for a file that is untracked or owned by p; after recording A then
\* B for x, check_conflicts(A, [x]) yields one conflict naming B and
\* check_conflicts(B, [x]) yields none.
C3_ConflictsExact ==
    conflicts.asked =>
        LET fm == manifest.file_map
            p == conflicts.mod_name
            F == conflicts.files
            R == conflicts.result
        IN  /\ \A f \in Files :
                   RecordsNaming(R, f) =
                       IF fm[f] # NoOwner /\ fm[f] # p THEN Occurrences(F, f) ELSE 0
            /\ \A i \in 1..Len(R) :
                   /\ R[i].existing_mod = fm[R[i].file]
                   /\ R[i].new_mod = p
            /\ ( /\ ~removedSince
                 /\ manifest.installed_mods["A"].present
                 /\ "x" \in Range(manifest.installed_mods["A"].files)
                 /\ lastRec["x"] = "B"
                 /\ F = <<"x">> ) =>
                   /\ p = "A" => R = <<[file |-> "x", existing_mod |-> "B", new_mod |-> "A"]>>
                   /\ p = "B" => R = <<>>

\* A then B recorded x, and check_conflicts("A", ["x"]) named B.
C3_Witness ==
    /\ conflicts.asked
    /\ conflicts.mod_name = "A"
    /\ conflicts.files = <<"x">>
    /\ manifest.installed_mods["A"].present
    /\ "x" \in Range(manifest.installed_mods["A"].files)
    /\ lastRec["x"] = "B"
    /\ Len(conflicts.result) = 1
    /\ conflicts.result[1].existing_mod = "B"

\* C4: after any sequence of record_installation, remove_mod_record and
\* clear_manifest calls, every file listed in installed_mods[p].files is a key
\* of file_map, owned by p unless a different package's later
\* record_installation listed it.
C4_InstalledFilesOwned ==
    manifest.shape = "ok" =>
        \A p \in Mods :
            manifest.installed_mods[p].present =>
                \A f \in Range(manifest.installed_mods[p].files) :
                    /\ manifest.file_map[f] # NoOwner
                    /\ \/ manifest.file_map[f] = p
                       \/ (lastRec[f] # p /\ lastRec[f] # NoOwner)

\* ---- claims about config.blk

\* C6: when enable's write raises or its verification does not find the enable
\* marker, then whatever failures were injected into the backup copy, the write
\* and the verification, config.blk afterwards equals config.blk before the
\* call and enable returns False.
C6_RollbackRestores ==
    \A i \in 1..Len(cfgLog) :
        ( /\ cfgLog[i].op = "enable"
          /\ cfgLog[i].path \in {"write_raised", "verify_raised", "verify_failed"}
          /\ cfgLog[i].rollback # "raises" ) =>
            /\ cfgLog[i].after = cfgLog[i].before
            /\ cfgLog[i].ret = FALSE

\* C7: enable never changes a config.blk that already holds the enable marker
\* (so no call adds a second marker), and an enable that follows a successful
\* enable leaves the file as that call left it.
C7_EnableIdempotent ==
    \A i \in 1..Len(cfgLog) :
        cfgLog[i].op = "enable" =>
            /\ HasEnable(Decode(cfgLog[i].before)) =>
                   cfgLog[i].after = cfgLog[i].before
            /\ ( /\ cfgLog[i].path = "written"
                 /\ ~HasDisable(Decode(cfgLog[i].before)) ) =>
                   Occurrences(cfgLog[i].after, "yes") = 1
            /\ ( /\ i > 1
                 /\ cfgLog[i - 1].op = "enable"
                 /\ cfgLog[i - 1].ret ) =>
                   /\ cfgLog[i].before = cfgLog[i - 1].after
                   /\ cfgLog[i].after = cfgLog[i].before
                   /\ Occurrences(cfgLog[i].after, "yes")
                          = Occurrences(cfgLog[i - 1].after, "yes")

\* Two enable calls in a row: the first inserted the marker, the second
\* succeeded and left the file alone.
C7_Witness ==
    /\ Len(cfgLog) >= 2
    /\ cfgLog[1].op = "enable" /\ cfgLog[1].ret /\ cfgLog[1].path = "written"
    /\ ~HasEnable(cfgLog[1].before)
    /\ cfgLog[2].op = "enable" /\ cfgLog[2].ret
    /\ cfgLog[2].after = cfgLog[1].after
    /\ Occurrences(config, "yes") = 1

\* ---- claims about zip extraction

\* C5: extraction never creates a file or a directory outside the target
\* directory, whatever the member names of the archive are.
C5_NothingOutsideTarget ==
    /\ \A d \in exFs.dirs \ FreshLibrary.dirs : IsPrefix(TargetDir, d)
    /\ \A f \in exFs.files : IsPrefix(TargetDir, f)

\* The second half of C5: once the member loop is over (it returned, or a
\* member's path made it raise) every member that is not special and does not
\* escape the target has been extracted.
C5_OthersExtracted == exStatus # "running" => ~exMissed

\* ---- claims about restore_game

StrictlyInside(path) == IsPrefix(ModDir, path) /\ path # ModDir

\* C8: restore deletes nothing but direct children of sound/mod (with what is
\* below them) whose resolved path lies strictly inside the mod directory; a
\* child that resolves elsewhere stays as it was, nothing outside the mod
\* directory changes and the mod directory itself is not deleted.
C8_OnlySafeChildrenDeleted ==
    /\ rsFs[ModDir] = rsBefore[ModDir]
    /\ \A q \in RsPaths :
           rsFs[q] # rsBefore[q] =>
               /\ rsFs[q] = NoNode
               /\ \E n \in ChildNames :
                      /\ IsPrefix(Child(n), q)
                      /\ StrictlyInside(ResolveLinks(rsBefore, Child(n), LinkFuel))
    /\ \A n \in ChildNames :
           ~StrictlyInside(ResolveLinks(rsBefore, Child(n), LinkFuel)) =>
               rsFs[Child(n)] = rsBefore[Child(n)]

\* A finished restore that deleted a directory child with its content and left
\* a link to a file outside the mod directory in place.
C8_Witness ==
    /\ rsPc = "done" /\ rsRet
    /\ \E n, m \in ChildNames :
           /\ rsBefore[Child(n)] = LinkTo(OutFile)
           /\ rsFs[Child(n)] = LinkTo(OutFile)
           /\ rsBefore[Child(m)] = DirNode
           /\ rsBefore[Nested(m)] = FileNode
           /\ rsFs[Child(m)] = NoNode
           /\ rsFs[Nested(m)] = NoNode

\* C9: when restore has reported success, the mod directory that was there is
\* still there, no regular file that was inside it is left, config.blk holds
\* no enable marker, the manifest file is absent and the ledger is empty.
C9_SuccessMeansClean ==
    (rsPc = "done" /\ rsRet) =>
        /\ rsBefore[ModDir].kind = "dir" => rsFs[ModDir].kind = "dir"
        /\ \A q \in RsPaths :
               (StrictlyInside(q) /\ rsBefore[q].kind = "file") =>
                   rsFs[q].kind = "none"
        /\ ~HasEnable(Decode(config))
        /\ mfile.kind = "absent"
        /\ manifest = EmptyLedger

\* ---- claims about install_from_library

\* C10: whatever the arguments and the injected I/O failures, the call never
\* raises; when it is over it has returned a boolean and the last progress
\* report it made has percent 100.
C10_ReturnsAndEndsAt100 ==
    /\ ~inOut.raised
    /\ inPc = "done" =>
           /\ inOut.returned
           /\ inOut.value \in BOOLEAN
           /\ inProgress # <<>>
           /\ inProgress[Len(inProgress)].pct = 100
    /\ inOut.returned => inPc = "done"

\* An install with a validated game path that ended in an except clause: it
\* returned False and its last report is 100, installation failed.
C10_Witness ==
    /\ inPc = "done"
    /\ game_root = "g"
    /\ inOut = Returned(FALSE)
    /\ Len(inProgress) >= 2
    /\ inProgress[Len(inProgress)] = [pct |-> 100, msg |-> "failed"]

\* The destination names of the copies that succeeded, in the order of the plan.
OkAttempts == SelectSeq(inAttempts, LAMBDA a : a.fault = "ok")

CopiedNames == [i \in 1..Len(OkAttempts) |-> inPlan[OkAttempts[i].entry].dest]

PlanNames == {inPlan[i].dest : i \in 1..Len(inPlan)}

LastReport == inProgress[Len(inProgress)]

FailedAttempts == {i \in 1..Len(inAttempts) : inAttempts[i].fault # "ok"}

\* C12 as stated: after a copy failed, the name of the failed file is not in
\* the recorded list.
C12_FailedNameNotRecorded ==
    inPc \in {"config", "done"} =>
        \A i \in FailedAttempts :
            inPlan[inAttempts[i].entry].dest \notin Range(inCalls.files)

\* C12 amended: a copy that fails does not stop the loop and adds no entry:
\* every planned file is attempted in plan order, each name is in the recorded
\* list once per successful copy to it, and the install goes on to the record
\* step and to the config update.
C12_FailureSkipsOnlyThatFile ==
    /\ inPc \in {"record", "config", "done"} /\ inPlan # <<>> =>
           /\ Len(inAttempts) = Len(inPlan)
           /\ \A i \in 1..Len(inAttempts) : inAttempts[i].entry = i
           /\ \A f \in Files :
                  Occurrences(inRecord, f) = Occurrences(CopiedNames, f)
    /\ inPc = "done" /\ inPlan # <<>> =>
           /\ inCalls.configured
           /\ inCalls.recorded <=> OkAttempts # <<>>
           /\ LastReport = [pct |-> 100, msg |-> "complete"]

\* A finished install whose first copy failed and whose later copy succeeded.
C12_Witness ==
    /\ inPc = "done"
    /\ Len(inAttempts) >= 2
    /\ inAttempts[1].fault # "ok"
    /\ inAttempts[Len(inAttempts)].fault = "ok"
    /\ inCalls.recorded /\ inCalls.configured

C14_SuccessMeansEnabled ==
    ( /\ inPc = "done"
      /\ inOut = Returned(TRUE)
      /\ LastReport = [pct |-> 100, msg |-> "complete"] ) =>
        HasEnable(Decode(config))

\* C15: an install without a validated game root, or of a package directory
\* that does not exist, returns False and leaves the mod directory, the
\* manifest file, config.blk and its backup as they were.
C15_PreconditionFailureHasNoEffect ==
    (inPc = "done" /\ (game_root = "none" \/ ~inPkg.exists)) =>
        /\ inOut = Returned(FALSE)
        /\ inMod = inBefore.mod
        /\ mfile = inBefore.mfile
        /\ config = inBefore.config
        /\ backup = inBefore.backup

MadeReport(msg) == \E i \in 1..Len(inProgress) : inProgress[i].msg = msg

C17_NoOpDistinctFromFailure ==
    (inPc = "done" /\ LastReport.msg \in {"none_selected", "no_files"}) =>
        inOut # InstallFailed(<<>>).out

\* C18: in the password loop the first invocation of the provider has the
\* reason required and every later one the reason incorrect; an extraction
\* that succeeded with a wrong password and then the correct one had exactly
\* two invocations, required and then incorrect.
C18_RequiredThenIncorrect ==
    /\ \A j \in 1..Len(imAsked) :
           imAsked[j] = IF j = 1 THEN "required" ELSE "incorrect"
    /\ \A i \in 1..Len(imLog) :
           (imLog[i].result = "ok" /\ imLog[i].tried = <<"None", "bad", "good">>)
               => imLog[i].asked = <<"required", "incorrect">>

FailureResults == {"failed", "required", "incorrect", "canceled"}

\* C19: after an import whose extraction failed, whatever the reason, the
\* package directory made for it is no longer in the library.
C19_FailedImportLeavesNoDirectory ==
    \A i \in 1..Len(imLog) :
        imLog[i].result \in FailureResults => imLog[i].dirAfter = "absent"

\* C20: the import of an archive whose package name is already in the library
\* is skipped: the package directory stays as it was, no exception is raised
\* and the import of one archive ends with the report 100, duplicate skipped.
C20_DuplicateIsSkipped ==
    \A i \in 1..Len(imLog) :
        (imLog[i].dirBefore # "absent"
         /\ imLog[i].result \notin {"missing", "bad_suffix"})
            => /\ imLog[i].result = "skipped_dup"
               /\ imLog[i].dirAfter = imLog[i].dirBefore
               /\ imOut.raised = "none"
               /\ imProgress # <<>>
               /\ imCall.mode = "single"
                      => imProgress[Len(imProgress)] =
                             [pct |-> 100, msg |-> "dup_skipped"]

\* ---- more claims about the manifest

\* C23: a record_installation call for package p sets installed_mods[p] and
\* makes p the owner of the listed files, and changes nothing else: the entry
\* of every other package and the owner of every file not listed stay as they
\* were.  So when A's record lists x and B records x, A's record still lists x
\* while file_map[x] is B.
C23_RecordChangesOnlyItsPackage ==
    [][clock' # clock =>
          \E p \in Mods :
              LET e == manifest'.installed_mods[p]
              IN  /\ e.present
                  /\ e.install_time = clock'
                  /\ \A q \in Mods \ {p} :
                         manifest'.installed_mods[q] = manifest.installed_mods[q]
                  /\ \A f \in Files :
                         manifest'.file_map[f] =
                             IF f \in Range(e.files) THEN p
                             ELSE manifest.file_map[f]
                  /\ ( /\ p = "B"
                       /\ "x" \in Range(e.files)
                       /\ "x" \in Range(manifest.installed_mods["A"].files) ) =>
                         /\ "x" \in Range(manifest'.installed_mods["A"].files)
                         /\ manifest'.file_map["x"] = "B"]_vars

\* record(A, [x]) then record(B, [x]): A's record still lists x, B owns x.
C23_Witness ==
    /\ manifest.installed_mods["A"].present
    /\ manifest.installed_mods["A"].files = <<"x">>
    /\ manifest.installed_mods["B"].present
    /\ manifest.installed_mods["B"].files = <<"x">>
    /\ manifest.installed_mods["B"].install_time
           > manifest.installed_mods["A"].install_time
    /\ manifest.file_map["x"] = "B"

\* C24: after clear_manifest returns the in-memory ledger is empty and the
\* manifest file does not exist, so a manager built afterwards starts empty.
C24_ClearLeavesNoFile ==
    [][ManIOClear =>
          /\ manifest' = EmptyLedger
          /\ mfile'.kind = "absent"
          /\ LoadManifest(mfile') = EmptyLedger]_vars

\* C25: after a call that changed the ledger (record_installation, or a
\* remove_mod_record of a recorded package) the manifest file holds the whole
\* in-memory ledger: a manager built from the file right afterwards has the
\* ledger of the manager that made the call.
C25_FileHoldsLedgerAfterCall ==
    [][(manifest.shape = "ok" /\ (ManIORecord \/ (ManIORemove /\ manifest' # manifest)))
          => LoadManifest(mfile') = manifest']_vars

\* C26: a manager built from a manifest file that is missing, does not parse,
\* or parses without holding both mappings, starts from the empty ledger with
\* both mappings present, so that record_installation can follow.
C26_BadFileLoadsEmpty ==
    [][(LoadCall /\ (mfile.kind # "json" \/ mfile.data.shape # "ok"))
          => (manifest' = EmptyLedger /\ manifest'.shape = "ok")]_vars

\* ---- more claims about config.blk

NoMarkerNoBlock(bytes) ==
    /\ "yes" \notin Range(bytes)
    /\ "no" \notin Range(bytes)
    /\ \A i \in 1..Len(bytes) : ~IsOpener(bytes[i])

\* C27: when config.blk holds neither marker and no sound block opener, enable
\* returns False before any write: config.blk is as it was.
C27_NoBlockNoWrite ==
    \A i \in 1..Len(cfgLog) :
        (cfgLog[i].op = "enable" /\ NoMarkerNoBlock(cfgLog[i].before)) =>
            /\ cfgLog[i].ret = FALSE
            /\ cfgLog[i].path \in {"no_block", "read_error"}
            /\ cfgLog[i].after = cfgLog[i].before

\* An enable on a file with other text only, every file operation succeeding.
C27_Witness ==
    /\ Len(cfgLog) >= 1
    /\ cfgLog[1].op = "enable"
    /\ cfgLog[1].before = <<"other">>
    /\ cfgLog[1].path = "no_block"
    /\ config = <<"other">>

\* The text with every disable marker turned into the enable marker.
IsReplaced(text, result) ==
    /\ Len(result) = Len(text)
    /\ \A k \in 1..Len(text) :
           result[k] = IF text[k] = "no" THEN "yes" ELSE text[k]

\* The text with a new line holding the enable marker right after the first
\* opener.
IsInserted(text, result) ==
    \E k \in 1..Len(text) :
        /\ IsOpener(text[k])
        /\ \A j \in 1..(k - 1) : ~IsOpener(text[j])
        /\ result = SubSeq(text, 1, k) \o <<"ws", "yes">>
                        \o SubSeq(text, k + 1, Len(text))

\* What the three cases make of the file: before and after are the bytes of
\* config.blk, ret is the value returned, written says whether the cases that
\* write are bound to succeed.
ThreeCases(before, after, ret, written) ==
    LET text == Decode(before)
    IN  CASE HasEnable(text) ->
                /\ after = before
                /\ ret
          [] HasDisable(text) ->
                written => /\ IsReplaced(text, after)
                           /\ ret
                           /\ HasEnable(after)
          [] HasOpener(text) ->
                written => /\ IsInserted(text, after)
                           /\ ret
                           /\ HasEnable(after)
          [] OTHER -> TRUE

C29_DisableFrame ==
    [][\A f \in DisableFaults :
           (f.read = "ok" /\ f.write = "ok" /\ Disable(f)) =>
               /\ backup' = backup
               /\ "yes" \notin Range(config')
               /\ Occurrences(config', "no")
                      = Occurrences(config, "no") + Occurrences(config, "yes")
               /\ "yes" \notin Range(config) => config' = config]_vars

\* ---- more claims about restore_game

FailedOutcomes == {"raises", "raises_partial"}

C21_WritesOnlyWhileBusy ==
    lastWrite.op # "none" => (lastWrite.busy /\ lastWrite.others = 0)

\* ---- claims about the auto-search thread

\* C22: start_auto_search running beside an install or a restore never
\* changes the game root or the manifest manager the running operation uses:
\* while the worker runs, the game root is the one it was started with and
\* the manager is one built on that root, and its three steps work on one
\* game directory.
C22_SearchLeavesOperationAlone ==
    /\ opPc \in {"begin", "manifest", "config"} =>
           /\ game_root = opUse.root
           /\ manifest_mgr.root = opUse.root
    /\ opPc = "done" =>
           /\ opUse.dirRoot = opUse.root
           /\ opUse.usedMgr.root = opUse.root
           /\ opUse.cfgRoot = opUse.root

\* ---- claims about the ledger as a whole

\* C38: after any sequence of record_installation, remove_mod_record and
\* clear_manifest calls from the empty ledger, every file_map entry f -> p has
\* p recorded in installed_mods and f listed in the files of p.
C38_OwnersListTheirFiles ==
    manifest.shape = "ok" =>
        \A f \in Files :
            manifest.file_map[f] # NoOwner =>
                /\ manifest.installed_mods[manifest.file_map[f]].present
                /\ f \in Range(manifest.installed_mods[manifest.file_map[f]].files)

\* ---- claims about the progress reports of an installation

EndMessages == {"failed", "none_selected", "no_files", "complete"}

\* The report's percentage is 15 plus the whole part of 80 * k / total.
InProportion(pct, k, total) ==
    /\ (pct - 15) * total <= k * 80
    /\ k * 80 < (pct - 14) * total

\* Report i respects the band of the step that made it.
InBand(i) ==
    LET r == inProgress[i]
    IN  CASE r.msg \in {"prepare", "scan", "count"} -> r.pct <= 15
          [] r.msg = "copy" ->
                /\ r.pct \in 15..95
                /\ \E k \in 1..Len(inAttempts) :
                      /\ inAttempts[k].fault = "ok"
                      /\ InProportion(r.pct, k, Len(inPlan))
          [] r.msg = "config" -> r.pct = 95
          [] r.msg \in EndMessages -> r.pct = 100 /\ i = Len(inProgress)
          [] OTHER -> FALSE

\* C33: the percentages install_from_library reports are integers of 0..100
\* that never decrease and keep to the bands: at most 15 before the copying,
\* 15..95 while copying in proportion to the files processed over the files
\* planned, 95 for the config update and 100 at the end.
C33_ProgressKeepsToBands ==
    /\ \A i \in 1..Len(inProgress) : inProgress[i].pct \in 0..100 /\ InBand(i)
    /\ \A i \in 1..Len(inProgress), j \in 1..Len(inProgress) :
          i < j => inProgress[i].pct <= inProgress[j].pct

\* A finished installation of several files that reported a copy inside the band.
C33_Witness ==
    /\ inPc = "done"
    /\ inOut = Returned(TRUE)
    /\ Len(inPlan) >= 2
    /\ \E i \in 1..Len(inProgress) :
          /\ inProgress[i].msg = "copy"
          /\ inProgress[i].pct > 15
          /\ inProgress[i].pct < 95
    /\ inProgress[Len(inProgress)] = [pct |-> 100, msg |-> "complete"]

\* ---- claims about planned files of the same name

\* The plan entries whose destination name is f.
EntriesTo(f) == {i \in 1..Len(inPlan) : inPlan[i].dest = f}

\* The attempts on entries to f that went through.
CopiedTo(f) == {i \in EntriesTo(f) : i <= Len(inAttempts) /\ inAttempts[i].fault = "ok"}

Last(S) == CHOOSE i \in S : \A j \in S : j <= i

\* The destination f holds a whole copy of the source src.
HoldsCopyOf(f, src) == src = inMod.files[f]

\* C39: when two planned files have the same name, both are copied in plan
\* order to the same destination, neither renamed nor skipped, and after the
\* install the destination holds the content of the last of them whose copy
\* succeeded.
C39_LastCopiedWins ==
    inPc \in {"record", "config", "done"} =>
        \A f \in Files :
            Cardinality(EntriesTo(f)) >= 2 =>
                /\ \A i \in EntriesTo(f) : inAttempts[i].entry = i
                /\ CopiedTo(f) # {} =>
                       HoldsCopyOf(f, inPlan[Last(CopiedTo(f))].src)

\* ---- claims about the conflict check before an installation

PlannedNames == [i \in 1..Len(inPlan) |-> inPlan[i].dest]

\* C37: for the package and the selection of an installation, the names
\* check_install_conflicts passes to check_conflicts are the destination names
\* install_from_library plans to copy, in the same order: every file the
\* install attempts to write is among the checked names.
C37_CheckedNamesArePlanned ==
    /\ inPc \in {"copy", "record", "config"} \/ inCalls.configured =>
           CheckedNames(inPkg, inList) = PlannedNames
    /\ \A i \in 1..Len(inAttempts) :
           inPlan[inAttempts[i].entry].dest \in Range(CheckedNames(inPkg, inList))

\* A finished installation of the whole package with a file in a subfolder.
C37_Witness ==
    /\ inPc = "done"
    /\ inOut = Returned(TRUE)
    /\ Len(inPlan) >= 2
    /\ \E i \in 1..Len(inPlan) : inPlan[i].src[1] = "sub"
    /\ \E i \in 1..Len(inPlan) : inPlan[i].src[1] = "top"
    /\ CheckedNames(inPkg, inList) = PlannedNames

\* ---- claims about the game root of one installation

\* C35: within one install the mod directory the files are copied into, the
\* manifest that records them and the config.blk that is enabled belong to
\* one game root, also when validate_game_path is called from another thread
\* with another valid path meanwhile.
C35_InstallKeepsToOneRoot ==
    opUse.kind = "install" =>
        /\ opPc \in {"config", "done"} => opUse.usedMgr.root = opUse.dirRoot
        /\ opPc = "done" => opUse.cfgRoot = opUse.dirRoot

\* ---- claims about what lies in the mod directory

\* Every copy and every save of the manifest went through.
NoStepFailed ==
    /\ \A i \in 1..Len(inAttempts) : inAttempts[i].fault = "ok"
    /\ \/ mfile = AbsentFile /\ manifest = EmptyLedger
       \/ mfile = JsonFile(manifest)

\* C32: after operations that write into sound/mod (install,
\* copy_country_files) none of which had a failing I/O step, every file they
\* put into the mod directory is a key of file_map.
C32_WrittenFilesAreInFileMap ==
    inPc \in {"idle", "done"} /\ NoStepFailed =>
        \A f \in Files :
            inMod.files[f] # NoFile /\ inMod.files[f] # "old" =>
                manifest.file_map[f] # NoOwner

\* ---- claims about the progress of a zip extraction

TotalBytes == SumSizes(zpCall.members)

\* A report of the loop gives the share of the bytes when the total size is
\* known and the share of the entries only when it is not.
ZpByBytesWhenKnown ==
    \A i \in 1..Len(zpReports) :
        zpReports[i].kind \in {"member", "chunk"} =>
            zpReports[i].pct =
                IF TotalBytes > 0
                THEN zpCall.base + ((zpReports[i].bytes * zpCall.share) \div TotalBytes)
                ELSE zpCall.base
                         + ((zpReports[i].idx * zpCall.share) \div Len(zpCall.members))

ZpNeverDecreases ==
    \A i \in 1..Len(zpReports), j \in 1..Len(zpReports) :
        i < j => zpReports[i].pct <= zpReports[j].pct

ZpEndsAtTop ==
    zpPc = "done" => zpReports[Len(zpReports)].pct = zpCall.base + zpCall.share

\* C34: in one pass of _extract_zip_safely over the range [base, base + share]
\* every report is base + share * bytes extracted / total bytes when the total
\* is known and the entry ratio only when it is not, the reports never
\* decrease, and the last report of a completed pass is base + share.
C34_ZipProgressByBytes ==
    /\ ZpByBytesWhenKnown
    /\ ZpNeverDecreases
    /\ ZpEndsAtTop

\* ---- claims about the archive password dialog

\* The value returned is that of an answer that arrived after the request
\* cleared the state: an answer from before is never consumed.
PwNeverStale ==
    pwPc = "returned" =>
        /\ pwSince # <<>>
        /\ pwRet = ResultOf(pwSince[Len(pwSince)])

\* A cancellation of the open request makes it return None.
PwCancelYieldsNone ==
    pwPc = "returned" /\ (\E i \in 1..Len(pwSince) : pwSince[i] = CancelAnswer) =>
        pwRet = "None"

\* The request returns after exactly one answer.
PwOneAnswer == pwPc = "returned" => Len(pwSince) = 1

\* C40: _request_archive_password returns only a value submitted or a
\* cancellation issued after the request was opened: an answer that arrived
\* before is never consumed, a cancellation always yields None, and the
\* waiting thread resumes after exactly one answer.
C40_RequestTakesItsOneAnswer ==
    /\ PwNeverStale
    /\ PwCancelYieldsNone
    /\ PwOneAnswer

\* ---- claims about the end of an operation

\* No entry point is being executed and no worker runs.
Quiet == (\A t \in Threads : thr[t].pc = "idle") /\ TotalRunning = 0

\* C36: once every accepted operation has ended, with success, with an error
\* or with an exception while its worker was set up or ran, the busy flag is
\* false again.
C36_BusyClearedAfterEveryEnd == Quiet => ~is_busy

\* ---- claims about what the page is told

\* C31: for every accepted install, import or restore the page is sent a
\* terminal signal that matches the outcome of the core operation: success
\* only when the core operation succeeded, failure otherwise.
C31_SignalMatchesOutcome ==
    \A i \in 1..Len(wkLog) :
        /\ wkLog[i].signal \in {"success", "failure"}
        /\ wkLog[i].signal = "success" <=> wkLog[i].core = "ok"

====
